---- MODULE Spec2Model ----
(***************************************************************************)
(* DuckIndex backend: the durable task queue (worker.rs), the index store  *)
(* (indexer.rs), the reconciler Worker::submit_index_all_files, the worker *)
(* threads Worker::process_task and the start-up sequence setup_backend    *)
(* (lib.rs, sqlite.rs), over a small file system.                          *)
(*                                                                         *)
(* Paths are sequences of characters, as the store keeps them (TEXT), so   *)
(* that the LIKE patterns of get_sub_directories_and_files are computed as *)
(* SQLite computes them.  Row ids are SQLite rowids of an INTEGER PRIMARY  *)
(* KEY column without AUTOINCREMENT: a new row gets max(id) + 1.           *)
(*                                                                         *)
(* worker.rs names the key columns of tasks (type, path); sqlite.rs names  *)
(* them (path_type, path).  The model has the one column both mean, `type`,*)
(* holding DIRECTORY or FILE.                                              *)
(***************************************************************************)
EXTENDS Integers, Sequences, FiniteSets, TLC

\* ------------------------------------------------------------------ bounds

\* File-system changes are stamped 1..MaxClock; no change happens after that.
MaxClock == 2

\* The items table never holds a row id above MaxItemId.
MaxItemId == 2

\* The calls of the indexer made on their own stop inserting directory rows
\* and file rows once an id above these would be given.
MaxDirId == 4
MaxFileId == 2

\* add_index_path is not called once IndexDirPaths holds MaxRoots entries, nor
\* when it could give a task row an id above MaxTaskId.
MaxRoots == 2
MaxTaskId == 4

\* A search skips at most MaxOffset matches and asks for at most MaxLimit rows.
MaxOffset == 1
MaxLimit == 2
MaxEvents == 3

\* ------------------------------------------------------------------- paths

Sep == "/"

R == <<"/", "r">>
F == <<"/", "r", "/", "a", ".", "t", "x", "t">>

\* The paths the file system of the model may hold: a root directory R that
\* always exists and a text file F that comes and goes in it.
FsPaths == {R, F}
FilePaths == {F}

UpperChars == <<"A", "B", "C", "D", "E", "F", "G", "H", "I", "J", "K", "L", "M",
                "N", "O", "P", "Q", "R", "S", "T", "U", "V", "W", "X", "Y", "Z">>
LowerChars == <<"a", "b", "c", "d", "e", "f", "g", "h", "i", "j", "k", "l", "m",
                "n", "o", "p", "q", "r", "s", "t", "u", "v", "w", "x", "y", "z">>

\* ASCII lower case of one character.
Lower(c) ==
    IF \E i \in 1..26 : UpperChars[i] = c
    THEN LowerChars[CHOOSE i \in 1..26 : UpperChars[i] = c]
    ELSE c

to_lowercase(s) == [i \in 1..Len(s) |-> Lower(s[i])]

Max(S) == CHOOSE x \in S : \A y \in S : y <= x

\* Position of the last separator of a path (0 when it has none).
LastSep(p) ==
    IF \E i \in 1..Len(p) : p[i] = Sep
    THEN Max({i \in 1..Len(p) : p[i] = Sep})
    ELSE 0

\* Path::file_name as a string.
filename_to_str(p) == SubSeq(p, LastSep(p) + 1, Len(p))

\* Path::parent as a string: the parent of "/r" is "/".
parent_to_str(p) ==
    IF LastSep(p) <= 1 THEN SubSeq(p, 1, LastSep(p)) ELSE SubSeq(p, 1, LastSep(p) - 1)

\* Path::join of a directory path and a name.
Join(dir, name) ==
    IF Len(dir) > 0 /\ dir[Len(dir)] = Sep THEN dir \o name ELSE dir \o <<Sep>> \o name

\* SQLite's LIKE: s[i..] matches pat[j..]; % is any run of characters, _ any
\* one character, letters compare without regard to ASCII case.
RECURSIVE LikeFrom(_, _, _, _)
LikeFrom(s, i, pat, j) ==
    IF j > Len(pat) THEN i > Len(s)
    ELSE IF pat[j] = "%" THEN \E k \in i..(Len(s) + 1) : LikeFrom(s, k, pat, j + 1)
    ELSE /\ i <= Len(s)
         /\ (pat[j] = "_" \/ Lower(pat[j]) = Lower(s[i]))
         /\ LikeFrom(s, i + 1, pat, j + 1)

Like(s, pat) == LikeFrom(s, 1, pat, 1)

\* ------------------------------------------------------------- file system

\* A node of the file system: nothing, a directory or a regular file, with
\* the instant of its last modification and, for a file, its content: its
\* lines, and whether a reader can read it at all (text that is not UTF-8 and
\* a document that is not a zip archive cannot be read).
NoNode == [kind |-> "none", mtime |-> 0, content |-> <<>>, readable |-> TRUE]

Exists(disk, p) == p \in DOMAIN disk /\ disk[p].kind # "none"
is_dir(disk, p) == p \in DOMAIN disk /\ disk[p].kind = "dir"
is_file(disk, p) == p \in DOMAIN disk /\ disk[p].kind = "file"

\* Indexer::get_modified_time: fs::metadata fails when the path is gone.
\* The RFC 3339 text of an instant is a one-to-one rendering of it and is
\* only ever compared for equality, so the instant stands for it.
get_modified_time(disk, p) ==
    IF Exists(disk, p) THEN [ok |-> TRUE, time |-> disk[p].mtime]
    ELSE [ok |-> FALSE, time |-> 0]

\* ----------------------------------------------------------------- readers

\* The extensions of the registered readers.
supports_ext ==
    { <<"t", "x", "t">>, <<"m", "d">>, <<"m", "a", "r", "k", "d", "o", "w", "n">>,
      <<"d", "o", "c", "x">>, <<"p", "d", "f">>, <<"p", "p", "t", "x">>,
      <<"x", "l", "s", "x">>,
      <<"j", "p", "g">>, <<"j", "p", "e", "g">>, <<"p", "n", "g">>, <<"t", "i", "f">>,
      <<"t", "i", "f", "f">>, <<"g", "i", "f">>, <<"w", "e", "b", "p">> }

\* CompositeReader::is_hidden (not Windows): the name starts with a dot.
is_hidden(p) ==
    LET n == filename_to_str(p) IN Len(n) > 0 /\ n[1] = "."

\* Path::extension: what follows the last dot of the name, unless the name
\* has no dot or only a leading one.
HasExtension(p) ==
    LET n == filename_to_str(p) IN \E i \in 2..Len(n) : n[i] = "."

Extension(p) ==
    LET n == filename_to_str(p)
        k == Max({i \in 2..Len(n) : n[i] = "."})
    IN  SubSeq(n, k + 1, Len(n))

\* CompositeReader::supports
supports(p) ==
    IF is_hidden(p) THEN FALSE
    ELSE IF HasExtension(p) THEN to_lowercase(Extension(p)) \in supports_ext
    ELSE FALSE

\* CompositeReader::read of a file node: nothing for an extension without a
\* reader, else one item per line, or the reader's error.
read(p, node) ==
    IF ~HasExtension(p) \/ to_lowercase(Extension(p)) \notin supports_ext
    THEN [ok |-> TRUE, items |-> <<>>]
    ELSE IF ~node.readable THEN [ok |-> FALSE, items |-> <<>>]
    ELSE [ok |-> TRUE, items |-> node.content]

\* --------------------------------------------------------------- the store

\* The value of a table's INTEGER PRIMARY KEY for a row inserted without one.
NextId(rows) == IF rows = {} THEN 1 ELSE Max({r.id : r \in rows}) + 1

\* The tables check_or_init_db creates, empty, with db_version 0.1.
\*   directories: [id, name, path, modified_time], UNIQUE (path)
\*   files:       [id, directory_id, name, modified_time], UNIQUE (directory_id, name)
\*   items:       [id, file_id, content]
\*   tasks:       [id, type, path, status], UNIQUE (type, path)
FreshDb ==
    [version |-> "0.1", directories |-> {}, files |-> {}, items |-> {}, tasks |-> {}]

\* check_db_init taking any db_version row for a sign of an initialised store.
check_db_init_any_version(st) == st.version # "none"

\* check_db_init: a db_version row equal to 0.1 ("none": no such row or table).
check_db_init(st) == st.version = "0.1"

\* check_or_init_db without its version check: every start creates the tables anew.
check_or_init_db_always(st) == FreshDb

\* check_or_init_db: a store of another version is dropped and created anew.
check_or_init_db(st) == IF check_db_init(st) THEN st ELSE FreshDb

\* check_or_init_db on the config table, created anew in the same batch with
\* IndexDirPaths = [].
check_or_init_db_config(st, paths) == IF check_db_init(st) THEN paths ELSE <<>>

\* ------------------------------------------------------------------ Indexer

\* Indexer::write_directory: upsert by path, refreshing modified_time.
write_directory(st, disk, directory) ==
    LET mt == get_modified_time(disk, directory)
        old == {d \in st.directories : d.path = directory}
    IN  IF ~mt.ok THEN [ok |-> FALSE, st |-> st, id |-> 0]
        ELSE IF old # {}
        THEN [ok |-> TRUE,
              st |-> [st EXCEPT !.directories =
                        {IF d.path = directory THEN [d EXCEPT !.modified_time = mt.time]
                         ELSE d : d \in st.directories}],
              id |-> (CHOOSE d \in old : TRUE).id]
        ELSE LET id == NextId(st.directories)
             IN  [ok |-> TRUE,
                  st |-> [st EXCEPT !.directories = @ \cup
                            {[id |-> id, name |-> filename_to_str(directory),
                              path |-> directory, modified_time |-> mt.time]}],
                  id |-> id]

\* Indexer::get_directory: the rows with this path (none: the lookup fails).
get_directory(st, directory) == {d \in st.directories : d.path = directory}

\* Indexer::get_file: the file rows joined to the directory row of the parent.
get_file(st, file) ==
    {f \in st.files : /\ f.name = filename_to_str(file)
                      /\ \E d \in st.directories :
                            d.id = f.directory_id /\ d.path = parent_to_str(file)}

\* The transaction of Indexer::write_file_items: upsert the file row by
\* (directory_id, name), then insert the items, each with the next row id.
RECURSIVE InsertItems(_, _, _)
InsertItems(rows, file_id, items) ==
    IF items = <<>> THEN rows
    ELSE InsertItems(rows \cup {[id |-> NextId(rows), file_id |-> file_id,
                                 content |-> Head(items)]},
                     file_id, Tail(items))

write_file_tx(st, directory_id, file_name, modified_time, items) ==
    LET old == {f \in st.files : f.directory_id = directory_id /\ f.name = file_name}
        file_id == IF old # {} THEN (CHOOSE f \in old : TRUE).id ELSE NextId(st.files)
        files2 == IF old # {}
                  THEN {IF f \in old THEN [f EXCEPT !.modified_time = modified_time]
                        ELSE f : f \in st.files}
                  ELSE st.files \cup {[id |-> file_id, directory_id |-> directory_id,
                                       name |-> file_name,
                                       modified_time |-> modified_time]}
    IN  [st EXCEPT !.files = files2,
                   !.items = InsertItems(st.items, file_id, items)]

\* Indexer::get_sub_directories_and_files: the directory rows whose path is
\* LIKE 'dir/%' and NOT LIKE 'dir/%/%', and the file rows of the directory.
sub_directories(st, directory) ==
    {d \in st.directories :
        /\ Like(d.path, directory \o <<Sep, "%">>)
        /\ ~Like(d.path, directory \o <<Sep, "%", Sep, "%">>)}

sub_files(st, directory) ==
    {f \in st.files : \E d \in st.directories :
                          d.id = f.directory_id /\ d.path = directory}

\* delete_file without its first statement: the file rows go, their items stay.
delete_file_rows_only(st, file) ==
    LET gone == {f \in st.files :
                    /\ f.name = filename_to_str(file)
                    /\ \E d \in st.directories :
                          d.id = f.directory_id /\ d.path = parent_to_str(file)}
    IN  [st EXCEPT !.files = @ \ gone]

\* Indexer::delete_file: one transaction deletes the items of the file rows
\* with this name in the directory rows with the parent's path, then the rows.
delete_file(st, file) ==
    LET gone == {f \in st.files :
                    /\ f.name = filename_to_str(file)
                    /\ \E d \in st.directories :
                          d.id = f.directory_id /\ d.path = parent_to_str(file)}
    IN  [st EXCEPT !.items = {it \in @ : \A f \in gone : it.file_id # f.id},
                   !.files = @ \ gone]

\* Indexer::delete_directory: the files of the directory, then its
\* sub-directories (each recursively), then its own row.  The two lists are
\* read once, before the loops.
RECURSIVE delete_directory(_, _)
RECURSIVE DeleteFiles(_, _)
RECURSIVE DeleteDirs(_, _)

DeleteFiles(st, paths) ==
    IF paths = {} THEN st
    ELSE LET p == CHOOSE x \in paths : TRUE
         IN  DeleteFiles(delete_file(st, p), paths \ {p})

DeleteDirs(st, paths) ==
    IF paths = {} THEN st
    ELSE LET p == CHOOSE x \in paths : TRUE
         IN  DeleteDirs(delete_directory(st, p), paths \ {p})

delete_directory(st, directory) ==
    LET sub_dirs == {d.path : d \in sub_directories(st, directory)}
        files == {Join(directory, f.name) : f \in sub_files(st, directory)}
        st1 == DeleteFiles(st, files)
        st2 == DeleteDirs(st1, sub_dirs)
    IN  [st2 EXCEPT !.directories = {d \in @ : d.path # directory}]

\* --------------------------------------------------------------- task queue

TaskTypes == {"DIRECTORY", "FILE"}
TaskStatuses == {"PENDING", "RUNNING", "FAILED"}

\* add_task without its ON CONFLICT clause on a table without its UNIQUE
\* constraint: every call inserts a row.
add_task_always_insert(st, task_type, path) ==
    LET id == NextId(st.tasks)
    IN  [st |-> [st EXCEPT !.tasks = @ \cup
                   {[id |-> id, type |-> task_type, path |-> path, status |-> "PENDING"]}],
         id |-> id]

\* add_task as INSERT OR REPLACE: a conflicting row is deleted and a new row,
\* with a new id, is inserted.
add_task_or_replace(st, task_type, path) ==
    LET kept == {t \in st.tasks : ~(t.type = task_type /\ t.path = path)}
        id == NextId(kept)
    IN  [st |-> [st EXCEPT !.tasks = kept \cup
                   {[id |-> id, type |-> task_type, path |-> path, status |-> "PENDING"]}],
         id |-> id]

\* Worker::add_task: INSERT ... ON CONFLICT(type, path) DO UPDATE SET status =
\* PENDING ... RETURNING id.
add_task(st, task_type, path) ==
    LET old == {t \in st.tasks : t.type = task_type /\ t.path = path}
    IN  IF old # {}
        THEN [st |-> [st EXCEPT !.tasks =
                        {IF t \in old THEN [t EXCEPT !.status = "PENDING"] ELSE t
                           : t \in st.tasks}],
              id |-> (CHOOSE t \in old : TRUE).id]
        ELSE LET id == NextId(st.tasks)
             IN  [st |-> [st EXCEPT !.tasks = @ \cup
                            {[id |-> id, type |-> task_type, path |-> path,
                              status |-> "PENDING"]}],
                  id |-> id]

\* reset_running_tasks deleting the RUNNING rows instead of updating them.
reset_running_tasks_delete(st) ==
    [st EXCEPT !.tasks = {t \in @ : t.status # "RUNNING"}]

\* reset_running_tasks giving up the interrupted tasks: SET status = FAILED.
reset_running_tasks_failed(st) ==
    [st EXCEPT !.tasks = {IF t.status = "RUNNING" THEN [t EXCEPT !.status = "FAILED"]
                          ELSE t : t \in st.tasks}]

\* Worker::reset_running_tasks: UPDATE tasks SET status = PENDING WHERE status
\* = RUNNING.
reset_running_tasks(st) ==
    [st EXCEPT !.tasks = {IF t.status = "RUNNING" THEN [t EXCEPT !.status = "PENDING"]
                          ELSE t : t \in st.tasks}]

\* The claim statement without its ORDER BY id: the PENDING row of greatest id.
claim_pick_last(st) ==
    {t \in st.tasks : /\ t.status = "PENDING"
                      /\ \A u \in st.tasks : u.status = "PENDING" => t.id >= u.id}

\* The row the claim statement of Worker::process_task picks: the PENDING row
\* of least id (the set is empty when no row is PENDING).
claim_pick(st) ==
    {t \in st.tasks : /\ t.status = "PENDING"
                      /\ \A u \in st.tasks : u.status = "PENDING" => t.id <= u.id}

\* The claim statement as a plain SELECT: the picked row stays PENDING.
claim_update_none(st, id) == st

\* The claim statement's update: the rows with the picked id become RUNNING.
claim_update(st, id) ==
    [st EXCEPT !.tasks = {IF t.id = id THEN [t EXCEPT !.status = "RUNNING"] ELSE t
                          : t \in st.tasks}]

\* process_task marking the row FAILED instead of deleting it.
complete_task_failed(st, id) ==
    [st EXCEPT !.tasks = {IF t.id = id THEN [t EXCEPT !.status = "FAILED"] ELSE t
                          : t \in st.tasks}]

\* The completion of Worker::process_task: delete from tasks where id = ?.
complete_task(st, id) == [st EXCEPT !.tasks = {t \in @ : t.id # id}]

\* The SQL NULL, and COUNT(x), which counts the rows whose x is not NULL.
Null == <<>>

\* col is the value of x in each row.
RECURSIVE Count(_)
Count(col) ==
    IF DOMAIN col = {} THEN 0
    ELSE LET t == CHOOSE r \in DOMAIN col : TRUE
         IN  (IF col[t] # Null THEN 1 ELSE 0)
               + Count([r \in DOMAIN col \ {t} |-> col[r]])

\* SELECT path FROM tasks WHERE status = ?: the paths of the rows, as the
\* table is scanned, by id.
RECURSIVE select_path(_, _)
select_path(rows, status) ==
    LET hit == {t \in rows : t.status = status}
    IN  IF hit = {} THEN <<>>
        ELSE LET t == CHOOSE r \in hit : \A u \in hit : r.id <= u.id
             IN  <<t.path>> \o select_path(hit \ {t}, status)

\* get_tasks_status counting with if(status = ?, 1, 0): no value is NULL.
get_tasks_status_if_zero(st) ==
    LET if(t, status) == IF t.status = status THEN <<1>> ELSE <<0>>
        pending == [t \in st.tasks |-> if(t, "PENDING")]
        running == [t \in st.tasks |-> if(t, "RUNNING")]
        failed == [t \in st.tasks |-> if(t, "FAILED")]
    IN  [pending |-> Count(pending),
         running |-> Count(running),
         failed |-> Count(failed),
         running_tasks |-> select_path(st.tasks, "RUNNING"),
         failed_tasks |-> select_path(st.tasks, "FAILED")]

\* Worker::get_tasks_status: SELECT COUNT(if(status = PENDING, 1, NULL)),
\* COUNT(if(status = RUNNING, 1, NULL)), COUNT(if(status = FAILED, 1, NULL))
\* FROM tasks, then the paths of the RUNNING rows and of the FAILED rows.
get_tasks_status(st) ==
    LET if(t, status) == IF t.status = status THEN <<1>> ELSE Null
        pending == [t \in st.tasks |-> if(t, "PENDING")]
        running == [t \in st.tasks |-> if(t, "RUNNING")]
        failed == [t \in st.tasks |-> if(t, "FAILED")]
    IN  [pending |-> Count(pending),
         running |-> Count(running),
         failed |-> Count(failed),
         running_tasks |-> select_path(st.tasks, "RUNNING"),
         failed_tasks |-> select_path(st.tasks, "FAILED")]

\* --------------------------------------------------------------- reconciler

\* The orders in which fs::read_dir may list the entries of the model.
ReadDirOrders ==
    LET E == FsPaths \ {R}
    IN  {o \in [1..Cardinality(E) -> E] : \A i, j \in 1..Cardinality(E) : o[i] = o[j] => i = j}

\* Is q an entry of directory `path` on this disk.
IsEntry(disk, path, q) == Exists(disk, q) /\ parent_to_str(q) = path

\* fs::read_dir(path), in the order `ord`.
read_dir(disk, ord, path) ==
    LET child(q) == IsEntry(disk, path, q) IN SelectSeq(ord, child)

\* Worker::split_dir_contents: the sub-directories and the files on disk.
current_sub_dirs(disk, path) == {q \in DOMAIN disk : IsEntry(disk, path, q) /\ is_dir(disk, q)}
current_sub_files(disk, path) == {q \in DOMAIN disk : IsEntry(disk, path, q) /\ is_file(disk, q)}

\* One add_task call of the reconciler; acc.ret collects what the calls returned.
Submit(acc, task_type, path) ==
    LET r == add_task(acc.db, task_type, path)
    IN  [db |-> r.st, ret |-> acc.ret \cup {<<task_type, path, r.id>>}]

\* submit_index_all_files on a directory, before the loop over its entries: an
\* indexed directory whose modified_time changed is submitted and the indexed
\* children that left the disk are deleted; an unknown directory is submitted.
ReconcileDirectory(acc, disk, path) ==
    LET found == get_directory(acc.db, path)
    IN  IF found # {}
        THEN LET index_dir == CHOOSE d \in found : TRUE
                 modified_time == get_modified_time(disk, path).time
             IN  IF index_dir.modified_time # modified_time
                 THEN LET a1 == Submit(acc, "DIRECTORY", path)
                          index_sub_dirs == {d.path : d \in sub_directories(a1.db, path)}
                          index_sub_files ==
                              {Join(path, f.name) : f \in sub_files(a1.db, path)}
                          db2 == DeleteDirs(a1.db,
                                            index_sub_dirs \ current_sub_dirs(disk, path))
                          db3 == DeleteFiles(db2,
                                             index_sub_files \ current_sub_files(disk, path))
                      IN  [a1 EXCEPT !.db = db3]
                 ELSE acc
        ELSE Submit(acc, "DIRECTORY", path)

\* A file entry handled as a path given to submit_index_all_files itself is:
\* deleted from the index and submitted, whatever its modified_time.
ReconcileFileEntry_always(acc, disk, path) ==
    LET a1 == [acc EXCEPT !.db = delete_file(@, path)]
    IN  IF supports(path) THEN Submit(a1, "FILE", path) ELSE a1

\* A file entry whose modified_time changed is submitted, its rows are kept.
ReconcileFileEntry_keep(acc, disk, path) ==
    LET found == get_file(acc.db, path)
    IN  IF found # {}
        THEN LET index_file == CHOOSE f \in found : TRUE
             IN  IF index_file.modified_time = get_modified_time(disk, path).time
                 THEN acc
                 ELSE IF supports(path) THEN Submit(acc, "FILE", path) ELSE acc
        ELSE IF supports(path) THEN Submit(acc, "FILE", path) ELSE acc

\* submit_index_all_files on a file entry of a directory.
ReconcileFileEntry(acc, disk, path) ==
    LET found == get_file(acc.db, path)
    IN  IF found # {}
        THEN LET index_file == CHOOSE f \in found : TRUE
             IN  IF index_file.modified_time = get_modified_time(disk, path).time
                 THEN acc
                 ELSE LET a1 == [acc EXCEPT !.db = delete_file(@, path)]
                      IN  IF supports(path) THEN Submit(a1, "FILE", path) ELSE a1
        ELSE IF supports(path) THEN Submit(acc, "FILE", path) ELSE acc

\* Worker::submit_index_all_files
RECURSIVE submit_index_all_files(_, _, _, _)
RECURSIVE ReconcileEntries(_, _, _, _)

ReconcileEntries(acc, disk, ord, entries) ==
    IF entries = <<>> THEN acc
    ELSE LET path == Head(entries)
             a1 == IF is_file(disk, path) THEN ReconcileFileEntry(acc, disk, path)
                   ELSE IF is_dir(disk, path)
                        THEN submit_index_all_files(acc, disk, ord, path)
                        ELSE acc
         IN  ReconcileEntries(a1, disk, ord, Tail(entries))

submit_index_all_files(acc, disk, ord, path) ==
    IF Exists(disk, path)
    THEN IF is_dir(disk, path)
         THEN ReconcileEntries(ReconcileDirectory(acc, disk, path), disk, ord,
                               read_dir(disk, ord, path))
         ELSE IF is_file(disk, path)
              THEN LET a1 == [acc EXCEPT !.db = delete_file(@, path)]
                   IN  IF supports(path) THEN Submit(a1, "FILE", path) ELSE a1
              ELSE acc
    ELSE [acc EXCEPT !.db = delete_file(delete_directory(@, path), path)]

\* -------------------------------------------------------------------- state

\* The worker threads of Worker::start_process.
\* ------------------------------------------------------------------- search

\* What SQL reads as the string literal when content is spliced by format!
\* between the quotes of '%{content}%': two quotes in a row are one quote
\* of the text, a quote alone ends the literal and the statement that follows
\* it does not parse.
RECURSIVE sql_literal(_)
sql_literal(content) ==
    IF content = <<>> THEN [ok |-> TRUE, text |-> <<>>]
    ELSE IF Head(content) # "'"
    THEN LET r == sql_literal(Tail(content))
         IN  [ok |-> r.ok, text |-> <<Head(content)>> \o r.text]
    ELSE IF Len(content) >= 2 /\ content[2] = "'"
    THEN LET r == sql_literal(SubSeq(content, 3, Len(content)))
         IN  [ok |-> r.ok, text |-> <<"'">> \o r.text]
    ELSE [ok |-> FALSE, text |-> <<>>]

\* ORDER BY id
RECURSIVE order_by_id(_)
order_by_id(rows) ==
    IF rows = {} THEN <<>>
    ELSE LET r == CHOOSE x \in rows : \A y \in rows : x.id <= y.id
         IN  <<r>> \o order_by_id(rows \ {r})

\* LIMIT limit OFFSET offset
limit_offset(rows, limit, offset) ==
    SubSeq(rows, offset + 1,
           IF offset + limit < Len(rows) THEN offset + limit ELSE Len(rows))

\* An item's content as text: the reader's n-th line is the digit n.
Digits == <<"0", "1", "2", "3", "4", "5", "6", "7", "8", "9">>
content_text(c) == <<Digits[c + 1]>>

\* Indexer::search_directory
search_directory(st, content, offset, limit) ==
    LET lit == sql_literal(content)
        hit == {d \in st.directories : Like(d.name, <<"%">> \o lit.text \o <<"%">>)}
        page == limit_offset(order_by_id(hit), limit, offset)
    IN  IF ~lit.ok THEN [ok |-> FALSE, rows |-> <<>>]
        ELSE [ok |-> TRUE,
              rows |-> [i \in 1..Len(page) |->
                          [name |-> page[i].name, path |-> page[i].path,
                           modified_time |-> page[i].modified_time]]]

\* The directories a file row joins to (none: the joined columns are NULL,
\* which the result's String fields do not take).
JoinDirectory(st, f) == {d \in st.directories : d.id = f.directory_id}
JoinFile(st, it) == {f \in st.files : f.id = it.file_id}

\* Indexer::search_file
search_file(st, content, offset, limit) ==
    LET lit == sql_literal(content)
        hit == {f \in st.files : Like(f.name, <<"%">> \o lit.text \o <<"%">>)}
        page == limit_offset(order_by_id(hit), limit, offset)
    IN  IF ~lit.ok \/ \E i \in 1..Len(page) : JoinDirectory(st, page[i]) = {}
        THEN [ok |-> FALSE, rows |-> <<>>]
        ELSE [ok |-> TRUE,
              rows |-> [i \in 1..Len(page) |->
                          [name |-> page[i].name,
                           path |-> (CHOOSE d \in JoinDirectory(st, page[i]) : TRUE).path,
                           modified_time |-> page[i].modified_time]]]

\* Indexer::search_item
search_item(st, content, offset, limit) ==
    LET lit == sql_literal(content)
        hit == {it \in st.items :
                  Like(content_text(it.content), <<"%">> \o lit.text \o <<"%">>)}
        page == limit_offset(order_by_id(hit), limit, offset)
        file(it) == CHOOSE f \in JoinFile(st, it) : TRUE
    IN  IF \/ ~lit.ok
           \/ \E i \in 1..Len(page) :
                 \/ JoinFile(st, page[i]) = {}
                 \/ JoinDirectory(st, file(page[i])) = {}
        THEN [ok |-> FALSE, rows |-> <<>>]
        ELSE [ok |-> TRUE,
              rows |-> [i \in 1..Len(page) |->
                          [content |-> page[i].content,
                           file |-> file(page[i]).name,
                           path |-> (CHOOSE d \in JoinDirectory(st, file(page[i])) : TRUE).path]]]

\* ------------------------------------------------------- the connection pool

\* POOL before init_pool: the cell is not set.
NoPool == [cell |-> FALSE, handle |-> FALSE]

\* init_pool setting the pool again when the cell holds none.
init_pool_reopen(p) == [cell |-> TRUE, handle |-> TRUE]

\* init_pool: POOL.get_or_init(...): the first call sets the cell to
\* Some(pool), a later call leaves the cell as it is.
init_pool(p) == IF p.cell THEN p ELSE [cell |-> TRUE, handle |-> TRUE]

\* get_conn: a panic when the cell is not set, an error when the cell holds
\* None, a connection otherwise.
get_conn(p) == IF ~p.cell THEN "panic" ELSE IF p.handle THEN "ok" ELSE "err"

\* close_pool, after its checkpoint and vacuum: the Option in the cell is
\* taken.
close_pool(p) == IF p.cell THEN [p EXCEPT !.handle = FALSE] ELSE p

Workers == {"w1", "w2"}

VARIABLES
    fs,         \* the file system: path -> node
    clock,      \* the instant of the last file-system change
    db,         \* the store: db_version and the four tables
    pc,         \* where each worker thread is in process_task
    cur,        \* each worker's claimed task and what it has read so far
    handed,     \* history: ids claimed since their row last became PENDING
    returned,   \* history: <<type, path, id, again>> for each add_task call since a
                \* worker or the start-up last acted: the key, the id returned, and
                \* whether the key had been submitted before in that time
    recovered,  \* history: the ids the last start-up turned from RUNNING to PENDING
    synced,     \* history: the reconciler ran on R after the last file-system change
    quiet,      \* history: the last file-system change came while the queue was drained
    config,     \* the IndexDirPaths list of the config table
    watched,    \* the monitor's watched_paths
    last,       \* history: the last call of the indexer made on its own, and its path
    pool,       \* the process's POOL: whether the cell is set, whether it holds a pool
    mon,        \* the file-monitor thread: alive or not, the events it has yet to
                \* receive, how many were sent and handled, the calls of the last one
    cmd         \* the commands of the user interface in progress, one per caller

vars == <<fs, clock, db, pc, cur, handed, returned, recovered, synced, quiet,
          config, watched, last, pool, mon, cmd>>

\* What no file-system change, reconciliation or worker step touches.
Roots == <<config, watched, last, pool, mon, cmd>>

NoCall == [op |-> "none", path |-> <<>>]

\* The monitor thread as get_monitor starts it: it waits on an empty channel.
NoMon == [alive |-> TRUE, rx |-> <<>>, sent |-> 0, done |-> 0, calls |-> <<>>]

\* The callers of the commands, and a caller that runs no command.
Callers == {"c1", "c2"}

NoCmd == [c \in Callers |-> [op |-> "none", pc |-> "idle"]]

NoTask == [id |-> 0, type |-> "FILE", path |-> <<>>, items |-> <<>>, directory_id |-> 0]

\* The state after the first setup_backend on a new store: the tables are
\* empty, no worker holds a task, the root directory exists and is empty.
Init ==
    /\ fs = [p \in FsPaths |-> IF p = R THEN [NoNode EXCEPT !.kind = "dir"]
                               ELSE NoNode]
    /\ clock = 0
    /\ db = FreshDb
    /\ pc = [w \in Workers |-> "idle"]
    /\ cur = [w \in Workers |-> NoTask]
    /\ handed = {}
    /\ returned = {}
    /\ recovered = {}
    /\ synced = FALSE
    /\ quiet = TRUE
    /\ config = <<>>
    /\ watched = {}
    /\ last = NoCall
    /\ pool = init_pool(NoPool)
    /\ mon = NoMon
    /\ cmd = NoCmd

\* The queue is drained: no row is PENDING or RUNNING and every worker thread
\* is back at its claim statement.
Drained ==
    /\ \A t \in db.tasks : t.status \notin {"PENDING", "RUNNING"}
    /\ \A w \in Workers : pc[w] = "idle"

\* ------------------------------------------------------- file-system changes

\* The directory holding p gets the instant of the change.
Touch(disk, p, t) ==
    LET par == parent_to_str(p)
    IN  IF par \in DOMAIN disk THEN [disk EXCEPT ![par].mtime = t] ELSE disk

FsChanged ==
    /\ clock' = clock + 1
    /\ synced' = FALSE
    /\ quiet' = Drained
    /\ UNCHANGED <<db, pc, cur, handed, returned, recovered, Roots>>

\* A file is created or overwritten, with readable or unreadable content.
fs_write(p, bad) ==
    /\ clock < MaxClock
    /\ p \in FilePaths
    /\ is_dir(fs, parent_to_str(p))
    /\ LET t == clock + 1
           node == [kind |-> "file", mtime |-> t, content |-> <<t>>,
                    readable |-> ~bad]
       IN  fs' = IF is_file(fs, p) THEN [fs EXCEPT ![p] = node]
                 ELSE [Touch(fs, p, t) EXCEPT ![p] = node]
    /\ FsChanged

fs_remove_file(p) ==
    /\ clock < MaxClock
    /\ is_file(fs, p)
    /\ fs' = [Touch(fs, p, clock + 1) EXCEPT ![p] = NoNode]
    /\ FsChanged

\* ------------------------------------------------------------------ actions

\* One call of submit_index_all_files(path), and what it leaves alone.
ReconcileStep(path, ord) ==
    LET acc == submit_index_all_files([db |-> db, ret |-> {}], fs, ord, path)
    IN  /\ db' = acc.db
        /\ returned' = returned \cup
                {<<tr[1], tr[2], tr[3],
                   \E old \in returned : old[1] = tr[1] /\ old[2] = tr[2]>> : tr \in acc.ret}
        /\ handed' = handed \ {tr[3] : tr \in acc.ret}
        /\ synced' = (synced \/ path = R)
        /\ recovered' = {}
        /\ UNCHANGED <<fs, clock, pc, cur, quiet>>

\* A caller (the monitor thread, the start-up check of the configured roots)
\* runs the reconciler on a path.
Reconcile(path, ord) == ReconcileStep(path, ord) /\ UNCHANGED Roots

\* process_task, the claim statement: the PENDING row of least id becomes
\* RUNNING and is returned.  (With no PENDING row the thread sleeps and asks
\* again: no change of state.)
Claim(w) ==
    /\ pc[w] = "idle"
    /\ claim_pick(db) # {}
    /\ LET t == CHOOSE x \in claim_pick(db) : TRUE
       IN  /\ db' = claim_update(db, t.id)
           /\ cur' = [cur EXCEPT ![w] = [NoTask EXCEPT !.id = t.id, !.type = t.type,
                                                       !.path = t.path]]
           /\ handed' = handed \cup {t.id}
    /\ pc' = [pc EXCEPT ![w] = "dispatch"]
    /\ returned' = {}
    /\ recovered' = {}
    /\ UNCHANGED <<fs, clock, synced, quiet, Roots>>

\* process_task when the claim statement returns no row (QueryReturnedNoRows):
\* the sub-select finds no PENDING row, the update matches no id, the thread
\* sleeps a second and returns.
NoTaskSleep(w) ==
    /\ pc[w] = "idle"
    /\ claim_pick(db) = {}
    /\ db' = claim_update(db, NoTask.id)
    /\ UNCHANGED <<fs, clock, pc, cur, handed, returned, recovered, synced, quiet,
                   Roots>>

WorkerStep == returned' = {} /\ recovered' = {} /\ UNCHANGED <<fs, clock, handed, synced, quiet, Roots>>

\* The dispatch of process_task without its is_dir and is_file tests.
Dispatch_unchecked(w) ==
    /\ pc[w] = "dispatch"
    /\ pc' = [pc EXCEPT ![w] = "write_directory"]
    /\ cur' = cur
    /\ db' = db
    /\ WorkerStep

\* process_task, the match on the task's type: a DIRECTORY task whose path is
\* a directory goes on to write_directory; a FILE task whose path is a regular
\* file is read, and goes on to write_file_items when the reader succeeds.
\* Everything else goes straight to the deletion of the task row.
Dispatch(w) ==
    /\ pc[w] = "dispatch"
    /\ LET t == cur[w]
           r == read(t.path, fs[t.path])
       IN  IF t.type = "DIRECTORY"
           THEN /\ pc' = [pc EXCEPT ![w] = IF is_dir(fs, t.path) THEN "write_directory"
                                           ELSE "complete"]
                /\ cur' = cur
           ELSE IF is_file(fs, t.path) /\ r.ok
                THEN /\ pc' = [pc EXCEPT ![w] = "write_directory"]
                     /\ cur' = [cur EXCEPT ![w].items = r.items]
                ELSE /\ pc' = [pc EXCEPT ![w] = "complete"]
                     /\ cur' = cur
    /\ db' = db
    /\ WorkerStep

\* write_directory: of the task's path for a DIRECTORY task, of the parent at
\* the start of write_file_items for a FILE task.  An error (the directory is
\* gone) ends process_task: the thread logs it and loops, the row stays as it is.
WriteDirectory(w) ==
    /\ pc[w] = "write_directory"
    /\ LET t == cur[w]
           dir == IF t.type = "DIRECTORY" THEN t.path ELSE parent_to_str(t.path)
           r == write_directory(db, fs, dir)
       IN  IF r.ok
           THEN /\ db' = r.st
                /\ pc' = [pc EXCEPT ![w] = IF t.type = "DIRECTORY" THEN "complete"
                                           ELSE "write_file"]
                /\ cur' = [cur EXCEPT ![w].directory_id = r.id]
           ELSE /\ db' = db
                /\ pc' = [pc EXCEPT ![w] = "idle"]
                /\ cur' = [cur EXCEPT ![w] = NoTask]
    /\ WorkerStep

\* The rest of write_file_items: the file's modified_time is read, then one
\* transaction upserts the file row and inserts the items.
WriteFileItems(w) ==
    /\ pc[w] = "write_file"
    /\ LET t == cur[w]
           mt == get_modified_time(fs, t.path)
       IN  IF mt.ok
           THEN /\ NextId(db.items) + Len(t.items) - 1 <= MaxItemId
                /\ db' = write_file_tx(db, t.directory_id, filename_to_str(t.path),
                                       mt.time, t.items)
                /\ pc' = [pc EXCEPT ![w] = "complete"]
                /\ cur' = cur
           ELSE /\ db' = db
                /\ pc' = [pc EXCEPT ![w] = "idle"]
                /\ cur' = [cur EXCEPT ![w] = NoTask]
    /\ WorkerStep

\* process_task, the last statement: the task row is deleted by id.
Complete(w) ==
    /\ pc[w] = "complete"
    /\ db' = complete_task(db, cur[w].id)
    /\ pc' = [pc EXCEPT ![w] = "idle"]
    /\ cur' = [cur EXCEPT ![w] = NoTask]
    /\ handed' = handed \ {cur[w].id}
    /\ returned' = {}
    /\ recovered' = {}
    /\ UNCHANGED <<fs, clock, synced, quiet, Roots>>

\* The process stops at any moment (its threads with it) and starts again:
\* setup_backend checks the schema and resets the RUNNING rows, and
\* get_monitor watches the configured roots.
Restart ==
    /\ db' = reset_running_tasks(check_or_init_db(db))
    /\ pc' = [w \in Workers |-> "idle"]
    /\ cur' = [w \in Workers |-> NoTask]
    /\ handed' = {}
    /\ returned' = {}
    /\ recovered' = {t.id : t \in {u \in db.tasks : u.status = "RUNNING"}}
    /\ synced' = FALSE
    /\ config' = check_or_init_db_config(db, config)
    /\ watched' = {config'[i] : i \in 1..Len(config')}
    /\ pool' = init_pool(NoPool)
    /\ mon' = NoMon
    /\ cmd' = NoCmd
    /\ UNCHANGED <<fs, clock, quiet, last>>

\* The reconciler and the worker threads.
Work ==
    \/ \E p \in FsPaths, ord \in ReadDirOrders : Reconcile(p, ord)
    \/ \E w \in Workers : Claim(w)
    \/ \E w \in Workers : NoTaskSleep(w)
    \/ \E w \in Workers : Dispatch(w)
    \/ \E w \in Workers : WriteDirectory(w)
    \/ \E w \in Workers : WriteFileItems(w)
    \/ \E w \in Workers : Complete(w)

\* The process over a file system whose files are readable; it may stop and
\* start again at any moment.
Next ==
    \/ \E p \in FsPaths : fs_write(p, FALSE)
    \/ \E p \in FsPaths : fs_remove_file(p)
    \/ Work
    \/ Restart

Spec == Init /\ [][Next]_vars

\* One run of the process, without a stop, over a file system that may also
\* hold unreadable files.
NextRun ==
    \/ \E p \in FsPaths, bad \in BOOLEAN : fs_write(p, bad)
    \/ \E p \in FsPaths : fs_remove_file(p)
    \/ Work

SpecRun == Init /\ [][NextRun]_vars

\* ------------------------------------------------------ the root commands

\* The paths the user adds and removes as roots.
RootPaths == {R}

\* Monitor: add_watched_path and del_watched_path, under the monitor's mutex.
add_watched_path(paths, path) == paths \cup {path}
del_watched_path(paths, path) == paths \ {path}

\* Config::get_index_dir_paths, retain(|p| p != path).
retain_other(paths, path) == LET other(q) == q # path IN SelectSeq(paths, other)

\* The tree on disk when the user adds the root: /r holds a.txt.
InitCmd ==
    /\ fs = [p \in FsPaths |->
                IF p \in FilePaths
                THEN [kind |-> "file", mtime |-> 0, content |-> <<1>>, readable |-> TRUE]
                ELSE [NoNode EXCEPT !.kind = "dir"]]
    /\ clock = 0
    /\ db = FreshDb
    /\ pc = [w \in Workers |-> "idle"]
    /\ cur = [w \in Workers |-> NoTask]
    /\ handed = {}
    /\ returned = {}
    /\ recovered = {}
    /\ synced = FALSE
    /\ quiet = TRUE
    /\ config = <<>>
    /\ watched = {}
    /\ last = NoCall
    /\ pool = init_pool(NoPool)
    /\ mon = NoMon
    /\ cmd = NoCmd

\* The command add_index_path(path): watch the path, run the reconciler on
\* it, append it to IndexDirPaths.
add_index_path(path, ord) ==
    /\ Len(config) < MaxRoots
    /\ NextId(db.tasks) + 1 <= MaxTaskId
    /\ watched' = add_watched_path(watched, path)
    /\ ReconcileStep(path, ord)
    /\ config' = Append(config, path)
    /\ UNCHANGED <<last, pool, mon, cmd>>

\* The command del_index_path(path): stop watching the path, delete_directory
\* of it, remove it from IndexDirPaths.  The tasks table is not touched.
del_index_path(path) ==
    /\ watched' = del_watched_path(watched, path)
    /\ db' = delete_directory(db, path)
    /\ config' = retain_other(config, path)
    /\ synced' = FALSE
    /\ recovered' = {}
    /\ UNCHANGED <<fs, clock, pc, cur, handed, returned, quiet, last, pool, mon, cmd>>

\* The commands of the user and the worker threads, on an unchanging tree.
NextCmd ==
    \/ \E p \in RootPaths, ord \in ReadDirOrders : add_index_path(p, ord)
    \/ \E p \in RootPaths : del_index_path(p)
    \/ \E w \in Workers : Claim(w)
    \/ \E w \in Workers : NoTaskSleep(w)
    \/ \E w \in Workers : Dispatch(w)
    \/ \E w \in Workers : WriteDirectory(w)
    \/ \E w \in Workers : WriteFileItems(w)
    \/ \E w \in Workers : Complete(w)

SpecCmd == InitCmd /\ [][NextCmd]_vars

\* ------------------------------------------------- the indexer on its own

\* The directories and the file the calls of the indexer are made on:
\*   /r/ab, its sub-directory /r/ab/c with the file /r/ab/c/f.txt,
\*   /r/abc, whose name starts with the name of /r/ab,
\*   /r/a_, whose name holds a character that LIKE reads as a wildcard.
DirAb == R \o <<"/", "a", "b">>
DirAbC == DirAb \o <<"/", "c">>
DirAbc == R \o <<"/", "a", "b", "c">>
DirAu == R \o <<"/", "a", "_">>
FileAbC == DirAbC \o <<"/", "f", ".", "t", "x", "t">>

IdxDirs == {DirAb, DirAbC, DirAbc, DirAu}
IdxFiles == {FileAbC}

\* The tree on disk: every one of these paths exists.
InitIdx ==
    /\ fs = [p \in {R} \cup IdxDirs \cup IdxFiles |->
                IF p \in IdxFiles
                THEN [kind |-> "file", mtime |-> 0, content |-> <<1>>, readable |-> TRUE]
                ELSE [NoNode EXCEPT !.kind = "dir"]]
    /\ clock = 0
    /\ db = FreshDb
    /\ pc = [w \in Workers |-> "idle"]
    /\ cur = [w \in Workers |-> NoTask]
    /\ handed = {}
    /\ returned = {}
    /\ recovered = {}
    /\ synced = FALSE
    /\ quiet = TRUE
    /\ config = <<>>
    /\ watched = {}
    /\ last = NoCall
    /\ pool = init_pool(NoPool)
    /\ mon = NoMon
    /\ cmd = NoCmd

IdxFrame == UNCHANGED <<fs, clock, pc, cur, handed, returned, recovered, synced, quiet,
                        config, watched, pool, mon, cmd>>

\* Indexer::write_directory(d)
IdxWriteDirectory(d) ==
    /\ NextId(db.directories) <= MaxDirId
    /\ LET r == write_directory(db, fs, d)
       IN  r.ok /\ db' = r.st
    /\ last' = [op |-> "write_directory", path |-> d]
    /\ IdxFrame

\* Indexer::write_file_items(f, items), the items being the reader's output:
\* write_directory of the parent, then the transaction.
IdxWriteFileItems(f) ==
    /\ NextId(db.directories) <= MaxDirId
    /\ NextId(db.files) <= MaxFileId
    /\ LET items == read(f, fs[f]).items
           r == write_directory(db, fs, parent_to_str(f))
           mt == get_modified_time(fs, f)
       IN  /\ NextId(db.items) + Len(items) - 1 <= MaxItemId
           /\ r.ok /\ mt.ok
           /\ db' = write_file_tx(r.st, r.id, filename_to_str(f), mt.time, items)
    /\ last' = [op |-> "write_file_items", path |-> f]
    /\ IdxFrame

\* Indexer::delete_file(f)
IdxDeleteFile(f) ==
    /\ db' = delete_file(db, f)
    /\ last' = [op |-> "delete_file", path |-> f]
    /\ IdxFrame

\* Indexer::delete_directory(d)
IdxDeleteDirectory(d) ==
    /\ db' = delete_directory(db, d)
    /\ last' = [op |-> "delete_directory", path |-> d]
    /\ IdxFrame

\* Calls of the indexer made one after the other, as its tests make them.
NextIdx ==
    \/ \E d \in IdxDirs : IdxWriteDirectory(d)
    \/ \E f \in IdxFiles : IdxWriteFileItems(f)
    \/ \E f \in IdxFiles : IdxDeleteFile(f)
    \/ \E d \in {R} \cup IdxDirs : IdxDeleteDirectory(d)

SpecIdx == InitIdx /\ [][NextIdx]_vars

\* ---------------------------------------------------- searches of the index

\* The texts searched for: a letter, a digit, the two characters LIKE and
\* the SQL literal treat specially.
Queries == {<<"a">>, <<"1">>, <<"_">>, <<"'">>}

Searched(op, content, offset, limit, result) ==
    /\ db' = db
    /\ last' = [op |-> op, path |-> content, offset |-> offset, limit |-> limit,
                result |-> result]
    /\ IdxFrame

IdxSearchDirectory(content, offset, limit) ==
    Searched("search_directory", content, offset, limit,
             search_directory(db, content, offset, limit))

IdxSearchFile(content, offset, limit) ==
    Searched("search_file", content, offset, limit,
             search_file(db, content, offset, limit))

IdxSearchItem(content, offset, limit) ==
    Searched("search_item", content, offset, limit,
             search_item(db, content, offset, limit))

\* Calls of the indexer, searches among them.
NextSearch ==
    \/ NextIdx
    \/ \E q \in Queries, offset \in 0..MaxOffset, limit \in 0..MaxLimit :
          IdxSearchDirectory(q, offset, limit)
    \/ \E q \in Queries, offset \in 0..MaxOffset, limit \in 0..MaxLimit :
          IdxSearchFile(q, offset, limit)
    \/ \E q \in Queries, offset \in 0..MaxOffset, limit \in 0..MaxLimit :
          IdxSearchItem(q, offset, limit)

SpecSearch == InitIdx /\ [][NextSearch]_vars

\* ------------------------------------- the reconciler and stale file rows

\* The file p is indexed with a modified_time that is not the one on disk.
Stale(p) ==
    /\ is_file(fs, p)
    /\ \E f \in get_file(db, p) : f.modified_time # get_modified_time(fs, p).time

\* A call of submit_index_all_files; last keeps the indexed files whose
\* modified_time it found changed.
ReconcileStale(path, ord) ==
    /\ ReconcileStep(path, ord)
    /\ last' = [op |-> "submit_index_all_files", path |-> path,
                stale |-> {p \in FilePaths : Stale(p)}]
    /\ UNCHANGED <<config, watched, pool, mon, cmd>>

\* The process of Spec, with the calls of the reconciler noted.
NextStale ==
    \/ \E p \in FsPaths : fs_write(p, FALSE)
    \/ \E p \in FsPaths : fs_remove_file(p)
    \/ \E p \in FsPaths, ord \in ReadDirOrders : ReconcileStale(p, ord)
    \/ \E w \in Workers : Claim(w)
    \/ \E w \in Workers : NoTaskSleep(w)
    \/ \E w \in Workers : Dispatch(w)
    \/ \E w \in Workers : WriteDirectory(w)
    \/ \E w \in Workers : WriteFileItems(w)
    \/ \E w \in Workers : Complete(w)
    \/ Restart

SpecStale == Init /\ [][NextStale]_vars

\* -------------------------- the reconciler on a path that left the disk

\* Is p the path D or a path below D.
Below(p, D) ==
    \/ p = D
    \/ Len(p) > Len(D) /\ SubSeq(p, 1, Len(D) + 1) = D \o <<Sep>>

\* A directory is removed from the disk with all it holds.
fs_remove_dir_all(d) ==
    /\ clock < MaxClock
    /\ is_dir(fs, d)
    /\ fs' = [p \in DOMAIN fs |->
                IF Below(p, d) THEN NoNode
                ELSE IF p = parent_to_str(d) THEN [fs[p] EXCEPT !.mtime = clock + 1]
                ELSE fs[p]]
    /\ FsChanged

\* submit_index_all_files(path) for a path that does not exist: the branch
\* with delete_directory(path) and delete_file(path).
ReconcileGone(path) ==
    /\ ~Exists(fs, path)
    /\ LET acc == submit_index_all_files([db |-> db, ret |-> {}], fs, <<>>, path)
       IN  /\ db' = acc.db
           /\ returned' = returned \cup {<<tr[1], tr[2], tr[3], FALSE>> : tr \in acc.ret}
    /\ last' = [op |-> "submit_index_all_files", path |-> path]
    /\ UNCHANGED <<fs, clock, pc, cur, handed, recovered, synced, quiet, config,
                   watched, pool, mon, cmd>>

\* The index is built by calls of the indexer, directories leave the disk,
\* and the monitor calls the reconciler on a path that is gone.
NextGone ==
    \/ NextIdx
    \/ \E d \in IdxDirs : fs_remove_dir_all(d)
    \/ \E p \in IdxDirs \cup IdxFiles : ReconcileGone(p)

SpecGone == InitIdx /\ [][NextGone]_vars

\* ------------------------------ tasks whose path changed before they run

\* The process while files and the root directory itself leave the disk
\* between the submission of a task and its run.
NextKind ==
    \/ \E p \in FsPaths : fs_write(p, FALSE)
    \/ \E p \in FsPaths : fs_remove_file(p)
    \/ fs_remove_dir_all(R)
    \/ Work

SpecKind == Init /\ [][NextKind]_vars

\* ------------------------------------------- the worker threads, scheduled

\* One step of the loop of a worker thread: start_process runs process_task
\* again and again, whatever it returned.
WorkerLoop(w) ==
    \/ Claim(w)
    \/ Dispatch(w)
    \/ WriteDirectory(w)
    \/ WriteFileItems(w)
    \/ Complete(w)

\* A write of the index that a bound of the model keeps from happening.
AtBound(w) ==
    /\ pc[w] = "write_file"
    /\ get_modified_time(fs, cur[w].path).ok
    /\ NextId(db.items) + Len(cur[w].items) - 1 > MaxItemId

\* One run of the process over readable files.
NextFair ==
    \/ \E p \in FsPaths : fs_write(p, FALSE)
    \/ \E p \in FsPaths : fs_remove_file(p)
    \/ Work

\* Each worker thread keeps running: a step of its loop that stays possible
\* is taken.
SpecFair ==
    /\ Init
    /\ [][NextFair]_vars
    /\ \A w \in Workers : WF_vars(WorkerLoop(w))

\* ------------------------------------------------------ the monitor thread

\* The kinds of event of the watcher, and the paths an event carries (a
\* rename carries two).
EventKinds == {"Create", "Modify", "Remove", "Access", "Other"}
EventPaths == {<<F>>, <<R>>, <<F, R>>}

\* The kinds for which the thread calls the reconciler.
Reconciled(kind) == kind \in {"Create", "Modify", "Remove"}

\* The watcher sends an event on the channel; the send is lost when the
\* receiving thread has ended.
Notify(kind, paths) ==
    /\ mon.sent < MaxEvents
    /\ mon' = [mon EXCEPT !.sent = @ + 1,
                          !.rx = IF mon.alive THEN Append(@, [kind |-> kind, paths |-> paths])
                                 ELSE @]
    /\ UNCHANGED <<fs, clock, db, pc, cur, handed, returned, recovered, synced, quiet,
                   config, watched, last, pool, cmd>>

\* The calls submit_index_all_files(path) for the paths of one event, one
\* after the other.
RECURSIVE ReconcileAll(_, _, _, _)
ReconcileAll(acc, disk, ord, paths) ==
    IF paths = <<>> THEN acc
    ELSE ReconcileAll(submit_index_all_files(acc, disk, ord, Head(paths)), disk, ord,
                      Tail(paths))

\* The thread takes the next event.  For a Create, Modify or Remove event it
\* calls the reconciler on each path and unwraps the result: when call
\* number failing returns an error (failing = 0: none does) the thread
\* panics and is gone, with its end of the channel.  Other events are passed
\* over.
Called(e, failing) ==
    IF ~Reconciled(e.kind) THEN <<>>
    ELSE IF failing = 0 THEN e.paths
    ELSE SubSeq(e.paths, 1, failing - 1)

MonitorLoop(failing) ==
    /\ mon.alive
    /\ mon.rx # <<>>
    /\ LET e == Head(mon.rx)
       IN  /\ failing <= Len(e.paths)
           /\ failing # 0 => Reconciled(e.kind)
           /\ mon' = IF failing = 0
                     THEN [mon EXCEPT !.rx = Tail(@), !.done = @ + 1,
                                      !.calls = Called(e, failing)]
                     ELSE [mon EXCEPT !.alive = FALSE, !.rx = <<>>,
                                      !.calls = SubSeq(e.paths, 1, failing)]

MonitorHandle(ord, failing) ==
    /\ MonitorLoop(failing)
    /\ LET called == Called(Head(mon.rx), failing)
           acc == ReconcileAll([db |-> db, ret |-> {}], fs, ord, called)
       IN  /\ db' = acc.db
           /\ returned' = returned \cup {<<tr[1], tr[2], tr[3], FALSE>> : tr \in acc.ret}
           /\ handed' = handed \ {tr[3] : tr \in acc.ret}
           /\ synced' = (synced \/ \E i \in 1..Len(called) : called[i] = R)
    /\ recovered' = {}
    /\ UNCHANGED <<fs, clock, pc, cur, quiet, config, watched, last, pool, cmd>>

\* Files change, the watcher reports, the monitor thread handles.
NextMon ==
    \/ \E p \in FsPaths : fs_write(p, FALSE)
    \/ \E p \in FsPaths : fs_remove_file(p)
    \/ \E kind \in EventKinds, paths \in EventPaths : Notify(kind, paths)
    \/ \E ord \in ReadDirOrders, failing \in 0..2 : MonitorHandle(ord, failing)

\* The thread runs its loop over the channel as long as it lives: a step of
\* the loop that stays possible is taken (the steps of the loop are the
\* steps of NextMon that take an event from the channel).
SpecMon ==
    /\ Init
    /\ [][NextMon]_vars
    /\ WF_mon(\E failing \in 0..2 : MonitorLoop(failing))

\* ------------------------------------------- the status read by statements

CmdFrame == UNCHANGED <<fs, clock, db, pc, cur, handed, returned, recovered, synced,
                        quiet, config, watched, last, pool, mon>>


\* get_tasks_status, first statement: the three counts.
StatusCounts(c) ==
    /\ cmd[c].pc = "idle"
    /\ LET counts == get_tasks_status(db)
       IN  cmd' = [cmd EXCEPT ![c] = [op |-> "get_tasks_status", pc |-> "running",
                                      pending |-> counts.pending,
                                      running |-> counts.running,
                                      failed |-> counts.failed,
                                      running_tasks |-> <<>>,
                                      failed_tasks |-> <<>>]]
    /\ CmdFrame

\* get_tasks_status, second statement: the paths of the RUNNING rows.
StatusRunning(c) ==
    /\ cmd[c].op = "get_tasks_status" /\ cmd[c].pc = "running"
    /\ cmd' = [cmd EXCEPT ![c].running_tasks = select_path(db.tasks, "RUNNING"),
                          ![c].pc = "failed"]
    /\ CmdFrame

\* get_tasks_status, third statement: the paths of the FAILED rows; the value
\* is returned (the caller keeps it until its next call).
StatusFailed(c) ==
    /\ cmd[c].op = "get_tasks_status" /\ cmd[c].pc = "failed"
    /\ cmd' = [cmd EXCEPT ![c].failed_tasks = select_path(db.tasks, "FAILED"),
                          ![c].pc = "idle"]
    /\ CmdFrame

\* The user interface asks for the status from one place, one call at a time.
StatusCallers == {"c1"}

\* The worker threads, the reconciler and callers of get_status, each running
\* on its own connection, over an unchanging tree.
NextStatus ==
    \/ Work
    \/ \E c \in StatusCallers : StatusCounts(c)
    \/ \E c \in StatusCallers : StatusRunning(c)
    \/ \E c \in StatusCallers : StatusFailed(c)

SpecStatus == InitCmd /\ [][NextStatus]_vars

\* ------------------------------------- the root commands by their statements

\* A root added in an earlier run whose directory has since left the disk.
S == <<Sep, "s">>

\* The path each caller's commands are about: the two callers work on
\* different paths.
PathOf(c) == IF c = "c1" THEN R ELSE S

\* The store and the monitor after /s was added as a root, the tree on disk
\* being /r with a.txt.
InitRoots ==
    /\ fs = [p \in FsPaths |->
                IF p \in FilePaths
                THEN [kind |-> "file", mtime |-> 0, content |-> <<1>>, readable |-> TRUE]
                ELSE [NoNode EXCEPT !.kind = "dir"]]
    /\ clock = 0
    /\ db = FreshDb
    /\ pc = [w \in Workers |-> "idle"]
    /\ cur = [w \in Workers |-> NoTask]
    /\ handed = {}
    /\ returned = {}
    /\ recovered = {}
    /\ synced = FALSE
    /\ quiet = TRUE
    /\ config = <<S>>
    /\ watched = {S}
    /\ last = NoCall
    /\ pool = init_pool(NoPool)
    /\ mon = NoMon
    /\ cmd = NoCmd

\* The steps of a command that may return an error: the call of the monitor,
\* the call of the reconciler or of delete_directory.
CmdErrors == {"none", "watch", "index"}

\* The value a command returns to its caller.
Returned(op, path, ok) == [op |-> op, pc |-> "idle", path |-> path, ok |-> ok]

\* add_index_path up to its reading of the root list: add_watched_path, then
\* submit_index_all_files; an error of either ends the command there.
AddIndexPathBegin(c, ord, failing) ==
    /\ cmd[c].pc = "idle"
    /\ Exists(fs, PathOf(c))
    /\ Len(config) < MaxRoots
    /\ NextId(db.tasks) + 1 <= MaxTaskId
    /\ watched' = IF failing = "watch" THEN watched
                  ELSE add_watched_path(watched, PathOf(c))
    /\ IF failing = "none"
       THEN /\ ReconcileStep(PathOf(c), ord)
            /\ cmd' = [cmd EXCEPT ![c] = [op |-> "add_index_path", pc |-> "get",
                                          path |-> PathOf(c)]]
       ELSE /\ cmd' = [cmd EXCEPT ![c] = Returned("add_index_path", PathOf(c), FALSE)]
            /\ UNCHANGED <<fs, clock, db, pc, cur, handed, returned, recovered, synced,
                           quiet>>
    /\ UNCHANGED <<config, last, pool, mon>>

\* del_index_path up to its reading of the root list: del_watched_path, then
\* delete_directory.
DelIndexPathBegin(c, failing) ==
    /\ cmd[c].pc = "idle"
    /\ watched' = IF failing = "watch" THEN watched
                  ELSE del_watched_path(watched, PathOf(c))
    /\ IF failing = "none"
       THEN /\ db' = delete_directory(db, PathOf(c))
            /\ cmd' = [cmd EXCEPT ![c] = [op |-> "del_index_path", pc |-> "get",
                                          path |-> PathOf(c)]]
       ELSE /\ db' = db
            /\ cmd' = [cmd EXCEPT ![c] = Returned("del_index_path", PathOf(c), FALSE)]
    /\ UNCHANGED <<fs, clock, pc, cur, handed, returned, recovered, synced, quiet,
                   config, last, pool, mon>>

\* Config::get_index_dir_paths: the command reads the list.
GetIndexDirPaths(c) ==
    /\ cmd[c].pc = "get"
    /\ cmd' = [cmd EXCEPT ![c] = [op |-> cmd[c].op, pc |-> "set", path |-> cmd[c].path,
                                  paths |-> config]]
    /\ UNCHANGED <<fs, clock, db, pc, cur, handed, returned, recovered, synced, quiet,
                   config, watched, last, pool, mon>>

\* Config::set_index_dir_paths: the command writes the list it read, with
\* its path pushed or taken out, and returns Ok.
SetIndexDirPaths(c) ==
    /\ cmd[c].pc = "set"
    /\ cmd[c].op = "add_index_path" => Len(cmd[c].paths) < MaxRoots
    /\ config' = IF cmd[c].op = "add_index_path" THEN Append(cmd[c].paths, cmd[c].path)
                 ELSE retain_other(cmd[c].paths, cmd[c].path)
    /\ cmd' = [cmd EXCEPT ![c] = Returned(cmd[c].op, cmd[c].path, TRUE)]
    /\ UNCHANGED <<fs, clock, db, pc, cur, handed, returned, recovered, synced, quiet,
                   watched, last, pool, mon>>

\* Two callers of the commands, each running its command on a task of the
\* async runtime.
NextRoots ==
    \/ \E c \in Callers, ord \in ReadDirOrders, failing \in CmdErrors :
          AddIndexPathBegin(c, ord, failing)
    \/ \E c \in Callers, failing \in CmdErrors : DelIndexPathBegin(c, failing)
    \/ \E c \in Callers : GetIndexDirPaths(c)
    \/ \E c \in Callers : SetIndexDirPaths(c)

SpecRoots == InitRoots /\ [][NextRoots]_vars

\* ------------------------------------- indexer calls with any kind of path

\* Path::is_absolute (Unix): the path starts at the root.
is_absolute(p) == Len(p) > 0 /\ p[1] = Sep

\* Indexer::check_is_absolute with no check in it.
check_is_absolute_none(path) == TRUE

\* Indexer::check_is_absolute: Ok for an absolute path, Err otherwise.
check_is_absolute(path) == is_absolute(path)

\* The working directory of the process, and relative paths that name, from
\* there, a directory and a file of the tree.
Cwd == R
RelDirs == {<<"a", "b">>}
RelFiles == {<<"a", "b", "/", "c", "/", "f", ".", "t", "x", "t">>}

\* The file system as fs::metadata sees it: a relative path is looked up from
\* the working directory.
Resolved(disk) ==
    [p \in DOMAIN disk \cup RelDirs \cup RelFiles |->
        IF is_absolute(p) THEN disk[p] ELSE disk[Join(Cwd, p)]]

DirectoryOps == {"write_directory", "get_directory", "get_sub_directories_and_files",
                 "delete_directory"}
FileOps == {"get_file", "write_file_items", "delete_file"}

\* The operations of the Indexer that start with check_is_absolute(path)?:
\* whether the call returns Ok, and the store it leaves.
Indexer(op, st, disk, path) ==
    IF ~check_is_absolute(path) THEN [ok |-> FALSE, st |-> st]
    ELSE IF op = "write_directory"
    THEN LET r == write_directory(st, disk, path) IN [ok |-> r.ok, st |-> r.st]
    ELSE IF op = "get_directory"
    THEN [ok |-> get_directory(st, path) # {}, st |-> st]
    ELSE IF op = "get_file"
    THEN [ok |-> get_file(st, path) # {}, st |-> st]
    ELSE IF op = "write_file_items"
    THEN LET r == write_directory(st, disk, parent_to_str(path))
             mt == get_modified_time(disk, path)
         IN  IF r.ok /\ mt.ok
             THEN [ok |-> TRUE,
                   st |-> write_file_tx(r.st, r.id, filename_to_str(path), mt.time,
                                        read(path, disk[path]).items)]
             ELSE [ok |-> FALSE, st |-> IF r.ok THEN r.st ELSE st]
    ELSE IF op = "get_sub_directories_and_files"
    THEN [ok |-> TRUE, st |-> st]
    ELSE IF op = "delete_file"
    THEN [ok |-> TRUE, st |-> delete_file(st, path)]
    ELSE [ok |-> TRUE, st |-> delete_directory(st, path)]

\* One call of an Indexer operation, with an absolute or a relative path.
IdxCall(op, path) ==
    LET r == Indexer(op, db, Resolved(fs), path)
    IN  /\ NextId(r.st.directories) <= MaxDirId + 1
        /\ NextId(r.st.files) <= MaxFileId + 1
        /\ NextId(r.st.items) <= MaxItemId + 1
        /\ db' = r.st
        /\ last' = [op |-> op, path |-> path, ok |-> r.ok]
        /\ IdxFrame

NextAbs ==
    \/ \E op \in DirectoryOps, d \in IdxDirs \cup RelDirs : IdxCall(op, d)
    \/ \E op \in FileOps, f \in IdxFiles \cup RelFiles : IdxCall(op, f)

SpecAbs == InitIdx /\ [][NextAbs]_vars

\* One thing at a time, as the tests of worker.rs run it: the tree changes and
\* the reconciler is called only while the queue is drained.
NextSeq ==
    \/ Drained /\ \E p \in FsPaths, bad \in BOOLEAN : fs_write(p, bad)
    \/ Drained /\ \E p \in FsPaths : fs_remove_file(p)
    \/ Drained /\ \E p \in FsPaths, ord \in ReadDirOrders : Reconcile(p, ord)
    \/ \E w \in Workers : Claim(w)
    \/ \E w \in Workers : NoTaskSleep(w)
    \/ \E w \in Workers : Dispatch(w)
    \/ \E w \in Workers : WriteDirectory(w)
    \/ \E w \in Workers : WriteFileItems(w)
    \/ \E w \in Workers : Complete(w)

SpecSeq == Init /\ [][NextSeq]_vars

\* ------------------------------------------- one process and its pool handle

PoolFrame == UNCHANGED <<fs, clock, db, pc, cur, handed, returned, recovered, synced,
                         quiet, config, watched, mon, cmd>>

\* A call of init_pool (setup_backend makes one).
InitPool ==
    /\ pool' = init_pool(pool)
    /\ last' = [op |-> "init_pool", path |-> <<>>]
    /\ PoolFrame

\* close_pool (on RunEvent::Exit, or when a TestEnv is dropped): it takes a
\* connection (a panic without one), checkpoints and vacuums, and takes the
\* pool out of the cell.
ClosePool ==
    /\ get_conn(pool) = "ok"
    /\ pool' = close_pool(pool)
    /\ last' = [op |-> "close_pool", path |-> <<>>]
    /\ PoolFrame

\* write_directory and write_file_items take their own connection: without
\* one they return the error, process_task ends, the row stays as it is.
NoConn(w) ==
    /\ pc[w] \in {"write_directory", "write_file"}
    /\ get_conn(pool) = "err"
    /\ db' = db
    /\ pc' = [pc EXCEPT ![w] = "idle"]
    /\ cur' = [cur EXCEPT ![w] = NoTask]
    /\ WorkerStep

\* The process with its pool handle: submit_index_all_files, the claim
\* statement and the index writes need a connection from get_conn; the
\* deletion of the task row uses the connection process_task already holds.
NextPool ==
    \/ Drained /\ \E p \in FsPaths, bad \in BOOLEAN : fs_write(p, bad)
    \/ Drained /\ \E p \in FsPaths : fs_remove_file(p)
    \/ /\ Drained
       /\ get_conn(pool) = "ok"
       /\ \E p \in FsPaths, ord \in ReadDirOrders : Reconcile(p, ord)
    \/ get_conn(pool) = "ok" /\ \E w \in Workers : Claim(w)
    \/ get_conn(pool) = "ok" /\ \E w \in Workers : NoTaskSleep(w)
    \/ \E w \in Workers : Dispatch(w)
    \/ get_conn(pool) = "ok" /\ \E w \in Workers : WriteDirectory(w)
    \/ get_conn(pool) = "ok" /\ \E w \in Workers : WriteFileItems(w)
    \/ \E w \in Workers : NoConn(w)
    \/ \E w \in Workers : Complete(w)
    \/ InitPool
    \/ ClosePool

SpecPool == Init /\ [][NextPool]_vars

\* -------------------------------------------- check_or_init_db on any store

\* What the db_version table of the file opened may hold.
Versions == {"none", "0.0", "0.1"}

StoredDirectory == [id |-> 1, name |-> filename_to_str(R), path |-> R, modified_time |-> 0]
StoredFile == [id |-> 1, directory_id |-> 1, name |-> filename_to_str(F), modified_time |-> 0]
StoredItem(id) == [id |-> id, file_id |-> 1, content |-> id]

\* The index tables of the file: nothing, the root, the root and a file with
\* no, one or two items.
StoredIndexes ==
    {[directories |-> {}, files |-> {}, items |-> {}],
     [directories |-> {StoredDirectory}, files |-> {}, items |-> {}]}
      \cup {[directories |-> {StoredDirectory}, files |-> {StoredFile},
             items |-> {StoredItem(i) : i \in 1..n}] : n \in 0..MaxItemId}

\* The tasks table of the file: for each of the two keys no row, a PENDING
\* row or a RUNNING row.
StoredQueues ==
    {a \cup b :
       a \in {{}} \cup {{[id |-> 1, type |-> "DIRECTORY", path |-> R, status |-> st]}
                          : st \in {"PENDING", "RUNNING"}},
       b \in {{}} \cup {{[id |-> 2, type |-> "FILE", path |-> F, status |-> st]}
                          : st \in {"PENDING", "RUNNING"}}}

InitBoot ==
    /\ fs = [p \in FsPaths |-> IF p = R THEN [NoNode EXCEPT !.kind = "dir"]
                               ELSE NoNode]
    /\ clock = 0
    /\ \E v \in Versions, ix \in StoredIndexes, q \in StoredQueues :
          db = [version |-> v, directories |-> ix.directories, files |-> ix.files,
                items |-> ix.items, tasks |-> q]
    /\ pc = [w \in Workers |-> "idle"]
    /\ cur = [w \in Workers |-> NoTask]
    /\ handed = {}
    /\ returned = {}
    /\ recovered = {}
    /\ synced = FALSE
    /\ quiet = TRUE
    /\ config \in {<<>>, <<R>>}
    /\ watched = {}
    /\ last = NoCall
    /\ pool = init_pool(NoPool)
    /\ mon = NoMon
    /\ cmd = NoCmd

\* setup_backend's call of check_or_init_db; last keeps the version it found.
CheckOrInitDb ==
    /\ get_conn(pool) = "ok"
    /\ db' = check_or_init_db(db)
    /\ config' = check_or_init_db_config(db, config)
    /\ last' = [op |-> "check_or_init_db", path |-> <<>>, version |-> db.version]
    /\ UNCHANGED <<fs, clock, pc, cur, handed, returned, recovered, synced, quiet,
                   watched, pool, mon, cmd>>

NextBoot == CheckOrInitDb

SpecBoot == InitBoot /\ [][NextBoot]_vars

\* ------------------------------------------------------------------- claims

\* A worker is processing a task from its claim to the deletion of the row
\* (or to the error that ends process_task).
Processing(w) == pc[w] # "idle"

SameKey(t, u) == t.type = u.type /\ t.path = u.path

\* A step in which worker w claims a task.
Claims(w) == pc[w] = "idle" /\ pc'[w] = "dispatch"

\* The contents of these item rows in the order of their ids (ORDER BY items.id).
RECURSIVE ContentsById(_)
ContentsById(rows) ==
    IF rows = {} THEN <<>>
    ELSE LET r == CHOOSE x \in rows : \A y \in rows : x.id <= y.id
         IN  <<r.content>> \o ContentsById(rows \ {r})

\* C1: in every reachable state the tasks table holds at most one row for
\* each (type, path).
C1_OneRowPerKey == \A t, u \in db.tasks : SameKey(t, u) => t = u

\* C1 witness: a key was submitted again while a worker was processing its
\* task (the upsert met the existing row), and the key still has one row.
C1_Witness ==
    \E w \in Workers :
        /\ Processing(w)
        /\ \E t \in db.tasks : t.id = cur[w].id /\ SameKey(t, cur[w]) /\ t.status = "PENDING"
        /\ Cardinality({t \in db.tasks : SameKey(t, cur[w])}) = 1

\* C2: at no instant are two workers processing a task with the same
\* (type, path).
C2_OneWorkerPerKey ==
    \A w1, w2 \in Workers :
        (w1 # w2 /\ Processing(w1) /\ Processing(w2)) => ~SameKey(cur[w1], cur[w2])

\* C3: a claim never returns a row id that an earlier claim returned, unless
\* the row became PENDING again (or was inserted anew) between the two claims.
C3_ClaimHandsRowOnce ==
    [][\A w \in Workers : Claims(w) => cur'[w].id \notin handed]_vars

\* C3 witness: both workers have claimed and hold different rows.
C3_Witness ==
    \A w \in Workers : Processing(w) /\ \A v \in Workers : v # w => cur[v].id # cur[w].id

\* C4: the submissions of a key made while no worker (and no start-up) acts
\* leave exactly one row for the key, PENDING, whose id is the id every one of
\* these calls returned.
C4_SubmitIdempotent ==
    \A tr \in returned :
        LET rows == {t \in db.tasks : t.type = tr[1] /\ t.path = tr[2]}
        IN  /\ Cardinality(rows) = 1
            /\ \A t \in rows : t.status = "PENDING" /\ t.id = tr[3]

\* C4 witness: a key has been submitted at least twice in a row while another
\* key's row is in the table.
C4_Witness ==
    \E tr \in returned : tr[4] /\ \E t \in db.tasks : ~(t.type = tr[1] /\ t.path = tr[2])

\* C5: a claim takes the PENDING row of least id.
C5_ClaimLowestPending ==
    [][\A w \in Workers :
          Claims(w) => \A u \in db.tasks : u.status = "PENDING" => cur'[w].id <= u.id]_vars

\* C5 witness: a worker has just claimed a row while a row of greater id was PENDING.
C5_Witness ==
    \E w \in Workers :
        pc[w] = "dispatch" /\ \E u \in db.tasks : u.status = "PENDING" /\ u.id > cur[w].id

\* C6: a row's status changes only from PENDING to RUNNING, from RUNNING to
\* FAILED, and from RUNNING back to PENDING in the start-up's reset_running.
C6_StatusPath ==
    [][\A t \in db.tasks : \A u \in db.tasks' :
          (u.id = t.id /\ SameKey(t, u) /\ u.status # t.status) =>
              \/ t.status = "PENDING" /\ u.status = "RUNNING"
              \/ t.status = "RUNNING" /\ u.status = "FAILED"
              \/ t.status = "RUNNING" /\ u.status = "PENDING" /\ Restart]_vars

\* C7: the start-up's reset_running leaves no row RUNNING, keeps the set of
\* rows with their ids and keys, keeps the status of the rows that were not
\* RUNNING, and changes no other table.
C7_ResetRunningFrame ==
    [][Restart =>
          /\ \A u \in db.tasks' : u.status # "RUNNING"
          /\ {<<u.id, u.type, u.path>> : u \in db.tasks'}
                = {<<t.id, t.type, t.path>> : t \in db.tasks}
          /\ \A t \in db.tasks : t.status # "RUNNING" => t \in db.tasks'
          /\ db'.directories = db.directories
          /\ db'.files = db.files
          /\ db'.items = db.items]_vars

\* C7 witness: a start-up has just reset a RUNNING row, next to a row that was
\* PENDING before, and no row is RUNNING.
C7_Witness ==
    /\ recovered # {}
    /\ \E t \in db.tasks : t.id \notin recovered
    /\ \A t \in db.tasks : t.status # "RUNNING"

\* C8: every task row of a store of version 0.1 is still there, with its id
\* and key, after the process stopped and started again, and a row that was
\* RUNNING is PENDING: the next claims can take it.
C8_QueueDurable ==
    [][(Restart /\ db.version = "0.1") =>
          \A t \in db.tasks : \E u \in db.tasks' :
              /\ u.id = t.id /\ SameKey(t, u)
              /\ (t.status = "RUNNING" => u.status = "PENDING")]_vars

\* C8 witness: after a start-up the row the next claim takes is one that was
\* RUNNING when the process stopped, and the index rows written before the
\* stop are there.
C8_Witness ==
    /\ recovered # {}
    /\ claim_pick(db) # {}
    /\ \A t \in claim_pick(db) : t.id \in recovered
    /\ db.directories # {}

\* The file row of p carries p's mtime and its items are the reader's output.
IndexedExactly(p) ==
    LET rows == get_file(db, p)
    IN  /\ Cardinality(rows) = 1
        /\ \A f \in rows :
              /\ f.modified_time = fs[p].mtime
              /\ ContentsById({it \in db.items : it.file_id = f.id}) = read(p, fs[p]).items

\* C9: once the reconciler has run on R and the queue is drained, the tree
\* being unchanged since a moment at which no task was queued or in process,
\* every supported file under R (that its reader can read) has a file row
\* with its mtime and exactly the reader's items.
C9_IndexMatchesDisk ==
    (synced /\ quiet /\ Drained) =>
        \A p \in FsPaths :
            (is_file(fs, p) /\ supports(p) /\ read(p, fs[p]).ok) => IndexedExactly(p)

\* C10: once the reconciler has run on R after the last change of the tree and
\* the queue is drained, every directory row and every file row is of an entry
\* that exists on disk.
C10_NoStaleRows ==
    (synced /\ Drained) =>
        /\ \A d \in db.directories : is_dir(fs, d.path)
        /\ \A f \in db.files : \A d \in db.directories :
              d.id = f.directory_id => is_file(fs, Join(d.path, f.name))

\* C11: on a tree that has been reconciled from R and drained, and has not
\* changed since, running the reconciler on R again adds no task row and
\* changes no index row.
C11_ReconcileIdempotent ==
    [][\A ord \in ReadDirOrders :
          (synced /\ quiet /\ Drained /\ Reconcile(R, ord)) => db' = db]_vars

\* The items stored for the file rows of path p, in the order of their ids.
StoredItems(p) ==
    ContentsById({it \in db.items : \E f \in get_file(db, p) : it.file_id = f.id})

\* C12: after write_file_items(F, items) the items stored for F are exactly
\* the given items, also when F had a file row and items before the call.
C12_WriteReplaces ==
    last.op = "write_file_items" => StoredItems(last.path) = read(last.path, fs[last.path]).items

\* Path p is directory D or lies below it: p starts with D and the separator.
Under(p, D) ==
    \/ p = D
    \/ Len(p) > Len(D) /\ SubSeq(p, 1, Len(D) + 1) = D \o <<Sep>>

\* The directory rows, file rows and item rows of the subtree of D.
RowsUnder(st, D) ==
    LET ds == {d \in st.directories : Under(d.path, D)}
        fl == {f \in st.files : \E d \in ds : d.id = f.directory_id}
    IN  [directories |-> ds, files |-> fl,
         items |-> {it \in st.items : \E f \in fl : it.file_id = f.id}]

\* C16: after delete_directory(D) the index holds no directory row for D or
\* below D at any depth, no file row of such a directory and no item of such
\* a file.
C16_DeleteDirectoryRemovesSubtree ==
    last.op = "delete_directory" =>
        LET rows == RowsUnder(db, last.path)
        IN  rows.directories = {} /\ rows.files = {} /\ rows.items = {}

\* C17: delete_directory(D) leaves every directory, file and item row outside
\* the subtree of D as it was.
C17_DeleteDirectoryFrame ==
    [][\A D \in {R} \cup IdxDirs :
          IdxDeleteDirectory(D) =>
              LET gone == RowsUnder(db, D)
              IN  /\ db.directories \ gone.directories \subseteq db'.directories
                  /\ db.files \ gone.files \subseteq db'.files
                  /\ db.items \ gone.items \subseteq db'.items]_vars

\* C18: get_sub_directories_and_files(P) returns exactly the directory rows
\* whose path is P, the separator and one component, and exactly the file rows
\* whose directory row is the row of P.
C18_ImmediateChildren ==
    \A P \in {R} \cup IdxDirs :
        /\ sub_directories(db, P) = {d \in db.directories : parent_to_str(d.path) = P}
        /\ sub_files(db, P) = {f \in db.files : \E d \in get_directory(db, P) :
                                                    d.id = f.directory_id}

\* C13: whenever the modified_time stored for a file equals the file's mtime
\* on disk, the items stored for it are the reader's output for the content
\* the file has now.
C13_MtimeMatchesContent ==
    \A p \in FilePaths :
        (/\ is_file(fs, p)
         /\ read(p, fs[p]).ok
         /\ \E f \in get_file(db, p) : f.modified_time = fs[p].mtime)
            => StoredItems(p) = read(p, fs[p]).items

\* C14: in every reachable state every file row's directory_id is the id of
\* a directory row.
C14_FileHasDirectory ==
    \A f \in db.files : \E d \in db.directories : d.id = f.directory_id

\* C15: in every reachable state every item row's file_id is the id of a
\* file row.
C15_ItemHasFile ==
    \A it \in db.items : \E f \in db.files : f.id = it.file_id

\* C15 witness: a worker has written the file row and items of its task and
\* a delete_file of that path has since removed them: the worker has yet to
\* delete its task row, and the index holds neither the row nor an item.
C15_Witness ==
    \E w \in Workers :
        /\ pc[w] = "complete" /\ cur[w].type = "FILE" /\ cur[w].items # <<>>
        /\ get_file(db, cur[w].path) = {}
        /\ db.items = {}

\* C19: once del_index_path(D) has been called (and D not added again) and
\* the queue is drained, the index holds no directory, file or item row under
\* D, and D is not watched.
C19_DeletedRootIsGone ==
    \A D \in RootPaths :
        ((\A i \in 1..Len(config) : config[i] # D) /\ Drained) =>
            LET rows == RowsUnder(db, D)
            IN  /\ rows.directories = {} /\ rows.files = {} /\ rows.items = {}
                /\ D \notin watched

\* C20: the persisted IndexDirPaths list holds no path twice.
C20_NoDuplicateRoot ==
    \A i, j \in 1..Len(config) : config[i] = config[j] => i = j

\* ---------------------------------------------------------------------------
\* C21: taken while no statement changes the queue, get_tasks_status returns
\* as pending, running and failed the number of rows of each status, and as
\* running_tasks and failed_tasks the paths of the RUNNING and of the FAILED
\* rows, one entry a row.
RowsOf(status) == {t \in db.tasks : t.status = status}

PathsAre(list, rows) ==
    /\ Len(list) = Cardinality(rows)
    /\ \A t \in rows :
          Cardinality({i \in 1..Len(list) : list[i] = t.path})
            = Cardinality({u \in rows : u.path = t.path})

C21_StatusSnapshotExact ==
    LET stat == get_tasks_status(db)
    IN  /\ stat.pending = Cardinality(RowsOf("PENDING"))
        /\ stat.running = Cardinality(RowsOf("RUNNING"))
        /\ stat.failed = Cardinality(RowsOf("FAILED"))
        /\ PathsAre(stat.running_tasks, RowsOf("RUNNING"))
        /\ PathsAre(stat.failed_tasks, RowsOf("FAILED"))

\* A queue with a PENDING and a RUNNING row, reported as one of each.
C21_Witness ==
    LET stat == get_tasks_status(db)
    IN  /\ RowsOf("PENDING") # {}
        /\ RowsOf("RUNNING") # {}
        /\ stat.pending = 1
        /\ stat.running = 1
        /\ stat.running_tasks = <<F>>

\* ---------------------------------------------------------------------------
\* C22: a process_task that found a PENDING task and succeeds removes exactly
\* the row it claimed and no other, and once no other thread is processing
\* a task no row is RUNNING; a process_task that finds no PENDING task
\* leaves the tasks table and the index as they are.
C22_ProcessTaskFrame ==
    [][\A w \in Workers :
         /\ Complete(w) =>
               /\ \E t \in db.tasks :
                     /\ t.id = cur[w].id
                     /\ SameKey(t, cur[w])
                     /\ db'.tasks = db.tasks \ {t}
               /\ <<db'.directories, db'.files, db'.items>>
                     = <<db.directories, db.files, db.items>>
               /\ (\A v \in Workers \ {w} : pc[v] = "idle")
                     => RowsOf("RUNNING")' = {}
         /\ NoTaskSleep(w) => db' = db]_vars

\* ---------------------------------------------------------------------------
\* C23: a task row left RUNNING by a process_task that ended in an error (no
\* thread is processing that task any more) stays in the table as it is and
\* is not claimed again, until the next start resets it or the same key is
\* submitted again.
Holds(w, t) == pc[w] # "idle" /\ cur[w].id = t.id /\ SameKey(cur[w], t)

Orphan(t) == t.status = "RUNNING" /\ \A w \in Workers : ~Holds(w, t)

Stays(t) ==
    \/ /\ t \in db'.tasks
       /\ \A w \in Workers :
             ~(pc[w] = "idle" /\ pc'[w] = "dispatch" /\ cur'[w].id = t.id)
    \/ /\ [t EXCEPT !.status = "PENDING"] \in db'.tasks
       /\ \/ t.id \in recovered'
          \/ \E tr \in returned' : tr[1] = t.type /\ tr[2] = t.path /\ tr[3] = t.id

C23_FailedTaskStaysRunning ==
    [][\A t \in db.tasks : Orphan(t) => Stays(t)]_vars

\* ---------------------------------------------------------------------------
\* C24: when the reader returns an error for the file of a FILE task, the
\* thread goes straight to the deletion of the task row without writing to
\* the index, and the deletion leaves no row of that id, RUNNING, FAILED or
\* other, and the index as it was.
ExtractorFails(w) ==
    /\ pc[w] = "dispatch"
    /\ cur[w].type = "FILE"
    /\ is_file(fs, cur[w].path)
    /\ ~read(cur[w].path, fs[cur[w].path]).ok

Index(st) == <<st.directories, st.files, st.items>>

C24_ExtractorErrorCompletes ==
    [][\A w \in Workers :
         /\ (ExtractorFails(w) /\ pc'[w] # pc[w]) =>
               /\ pc'[w] = "complete"
               /\ cur'[w].items = <<>>
               /\ db' = db
         /\ (pc[w] = "complete" /\ cur[w].type = "FILE" /\ cur[w].items = <<>>
               /\ pc'[w] # pc[w]) =>
               /\ pc'[w] = "idle"
               /\ Index(db') = Index(db)
               /\ \A t \in db'.tasks : t.id # cur[w].id
               /\ \A t \in db'.tasks : t.status # "FAILED"]_vars

\* The reader has failed on an unreadable file and the thread is at the
\* deletion of the task row; the file has no row.
C24_Witness ==
    \E w \in Workers :
        /\ pc[w] = "complete"
        /\ cur[w].type = "FILE"
        /\ is_file(fs, cur[w].path)
        /\ ~fs[cur[w].path].readable
        /\ db.files = {}
        /\ \E t \in db.tasks : t.id = cur[w].id /\ t.status = "RUNNING"

\* ---------------------------------------------------------------------------
\* C25: whatever submissions, claims, task executions (ending well or in an
\* error) and restarts have happened, no task row has status FAILED, and
\* get_tasks_status reports failed = 0 and no failed task.
C25_NeverFailed ==
    /\ RowsOf("FAILED") = {}
    /\ get_tasks_status(db).failed = 0
    /\ get_tasks_status(db).failed_tasks = <<>>

\* A start-up has just reset interrupted tasks, which are PENDING again.
C25_Witness ==
    /\ recovered # {}
    /\ \A id \in recovered : \E t \in RowsOf("PENDING") : t.id = id
    /\ get_tasks_status(db).failed = 0

\* ---------------------------------------------------------------------------
\* C26: once close_pool has run, get_conn returns an error, and keeps
\* returning one whatever is called afterwards, init_pool included.
C26_ClosedPoolStaysClosed ==
    [][/\ ClosePool => get_conn(pool') = "err"
       /\ get_conn(pool) = "err" => get_conn(pool') = "err"]_vars

\* init_pool has been called on the closed pool.
C26_Witness ==
    /\ last.op = "init_pool"
    /\ ~pool.handle
    /\ get_conn(pool) = "err"

\* ---------------------------------------------------------------------------
\* C27: check_or_init_db on a store whose db_version is 0.1 leaves every
\* table and row, the configured roots included, as they are; on any other
\* store it leaves directories, files, items and tasks empty, IndexDirPaths
\* = [] and db_version = 0.1.  A second call changes nothing more.
C27_CheckOrInitDb ==
    [][CheckOrInitDb =>
         /\ IF db.version = "0.1"
            THEN db' = db /\ config' = config
            ELSE /\ db'.version = "0.1"
                 /\ db'.directories = {} /\ db'.files = {} /\ db'.items = {}
                 /\ db'.tasks = {}
                 /\ config' = <<>>
         /\ check_or_init_db(db') = db'
         /\ check_or_init_db_config(db', config') = config']_vars

\* check_or_init_db found a version other than 0.1 and a non-empty store.
C27_Witness ==
    /\ last.op = "check_or_init_db"
    /\ last.version = "0.0"
    /\ db = FreshDb
    /\ config = <<>>

\* ---------------------------------------------------------------------------
\* C28: a search returns the rows whose name (content, for an item) contains
\* the query, in increasing order of row id, without the first offset of
\* them and at most limit of them.
Contains(text, q) ==
    \E i \in 1..(Len(text) + 1) :
        i + Len(q) - 1 <= Len(text) /\ SubSeq(text, i, i + Len(q) - 1) = q

\* The i-th row of the page: the matching row with offset + i - 1 matching
\* rows of smaller id.
PageRow(hit, offset, i) ==
    CHOOSE h \in hit : Cardinality({g \in hit : g.id < h.id}) = offset + i - 1

PageLen(hit, offset, limit) ==
    IF Cardinality(hit) <= offset THEN 0
    ELSE IF Cardinality(hit) - offset < limit THEN Cardinality(hit) - offset
    ELSE limit

C28_SearchPage ==
    /\ last.op = "search_directory" =>
          LET hit == {d \in db.directories : Contains(d.name, last.path)}
          IN  /\ last.result.ok
              /\ Len(last.result.rows) = PageLen(hit, last.offset, last.limit)
              /\ \A i \in 1..Len(last.result.rows) :
                    /\ last.result.rows[i].name = PageRow(hit, last.offset, i).name
                    /\ last.result.rows[i].path = PageRow(hit, last.offset, i).path
    /\ last.op = "search_file" =>
          LET hit == {f \in db.files : Contains(f.name, last.path)}
          IN  /\ last.result.ok
              /\ Len(last.result.rows) = PageLen(hit, last.offset, last.limit)
              /\ \A i \in 1..Len(last.result.rows) :
                    last.result.rows[i].name = PageRow(hit, last.offset, i).name
    /\ last.op = "search_item" =>
          LET hit == {it \in db.items : Contains(content_text(it.content), last.path)}
          IN  /\ last.result.ok
              /\ Len(last.result.rows) = PageLen(hit, last.offset, last.limit)
              /\ \A i \in 1..Len(last.result.rows) :
                    last.result.rows[i].content = PageRow(hit, last.offset, i).content

\* ---------------------------------------------------------------------------
\* C29: write_directory, get_directory, get_file, write_file_items,
\* get_sub_directories_and_files, delete_file and delete_directory, called
\* with a path that is not absolute, return an error and leave the index
\* as it is.
C29_RelativePathRejected ==
    [][(last'.op \in DirectoryOps \cup FileOps /\ ~is_absolute(last'.path)) =>
         (~last'.ok /\ db' = db)]_vars

\* write_directory was called with a relative path that names an existing
\* directory, on an index that holds rows; it returned an error.
C29_Witness ==
    /\ last.op = "write_directory"
    /\ last.path \in RelDirs
    /\ is_dir(Resolved(fs), last.path)
    /\ ~last.ok
    /\ db.directories # {}

\* ---------------------------------------------------------------------------
\* C30: submit_index_all_files on the root directory submits a DIRECTORY
\* task only for a directory that has no row or whose stored modified_time
\* is not the one on disk, and a FILE task only for a supported file that
\* has no row or whose stored modified_time is not the one on disk.
Changed(rows, path) ==
    \/ rows = {}
    \/ \E r \in rows : r.modified_time # get_modified_time(fs, path).time

Submitted(ord) == submit_index_all_files([db |-> db, ret |-> {}], fs, ord, R).ret

AllItems(st) == search_item(st, <<>>, 0, MaxItemId + 1)

C31_StaleRowsRemoved ==
    [][/\ \A p \in FilePaths :
            (Stale(p) /\ \E path \in {R, p}, ord \in ReadDirOrders :
                             ReconcileStale(path, ord))
              => /\ get_file(db', p) = {}
                 /\ AllItems(db').ok
                 /\ AllItems(db').rows = <<>>
       /\ (AllItems(db).rows = <<>> /\ AllItems(db') # AllItems(db))
              => \E w \in Workers : WriteFileItems(w)]_vars

\* The reconciler has just found the indexed file changed: its rows are gone
\* and its task waits.
C31_Witness ==
    /\ last.op = "submit_index_all_files"
    /\ F \in last.stale
    /\ get_file(db, F) = {}
    /\ AllItems(db).rows = <<>>
    /\ \E t \in RowsOf("PENDING") : t.type = "FILE" /\ t.path = F

\* ---------------------------------------------------------------------------
\* C32: a call of the reconciler on a path that is not on disk leaves no
\* directory row of the path or below it, no file row of such a directory or
\* of the path itself, and no item of such a file; it submits no task and
\* leaves the tasks table and every other row of the index as they were.
RowsOfPath(st, p) ==
    LET under == RowsUnder(st, p)
        fl == under.files \cup get_file(st, p)
    IN  [directories |-> under.directories, files |-> fl,
         items |-> {it \in st.items : \E f \in fl : it.file_id = f.id}]

C32_GonePathRemoved ==
    [][\A p \in IdxDirs \cup IdxFiles :
         ReconcileGone(p) =>
           /\ RowsOfPath(db', p).directories = {}
           /\ RowsOfPath(db', p).files = {}
           /\ RowsOfPath(db', p).items = {}
           /\ db'.directories = db.directories \ RowsOfPath(db, p).directories
           /\ db'.files = db.files \ RowsOfPath(db, p).files
           /\ db'.items = db.items \ RowsOfPath(db, p).items
           /\ db'.tasks = db.tasks
           /\ returned' = returned]_vars

\* ---------------------------------------------------------------------------
\* C33: delete_file on a path without a file row and delete_directory on a
\* path without a directory row leave the directories, the files and the
\* items of the index as they were.
NoRow(op, p) ==
    IF op = "delete_file" THEN get_file(db, p) = {}
    ELSE get_directory(db, p) = {}

C33_DeleteWithoutRowFrame ==
    [][/\ \A f \in IdxFiles :
            IdxDeleteFile(f) /\ NoRow("delete_file", f) => db' = db
       /\ \A d \in {R} \cup IdxDirs :
            IdxDeleteDirectory(d) /\ NoRow("delete_directory", d) => db' = db]_vars

\* ---------------------------------------------------------------------------
\* C34: when a worker dispatches a DIRECTORY task whose path is not a
\* directory, or a FILE task whose path is not a regular file, it goes to the
\* deletion of the task row without a write; a worker goes on to a write only
\* when the path has the kind of the task; and the deletion leaves the index
\* as it was and no row with the id of the task.
HasKind(t) ==
    IF t.type = "DIRECTORY" THEN is_dir(fs, t.path) ELSE is_file(fs, t.path)

C34_WriteOnlyForKind ==
    [][\A w \in Workers :
         /\ (pc[w] = "dispatch" /\ pc'[w] # pc[w]) =>
               /\ db' = db
               /\ ~HasKind(cur[w]) => pc'[w] = "complete"
               /\ pc'[w] = "write_directory" => HasKind(cur[w])
         /\ (pc[w] \in {"idle", "dispatch", "complete"} /\ pc'[w] # pc[w]) =>
               Index(db') = Index(db)
         /\ (pc[w] = "complete" /\ pc'[w] # pc[w]) =>
               /\ pc'[w] = "idle"
               /\ \A t \in db'.tasks : t.id # cur[w].id]_vars

\* One worker is about to delete a DIRECTORY task and the other a FILE task,
\* neither having written: the paths were gone when the tasks ran.
C34_Witness ==
    \E w, v \in Workers :
        /\ pc[w] = "complete" /\ cur[w].type = "DIRECTORY"
        /\ cur[w].directory_id = 0 /\ ~is_dir(fs, cur[w].path)
        /\ pc[v] = "complete" /\ cur[v].type = "FILE"
        /\ cur[v].directory_id = 0 /\ ~is_file(fs, cur[v].path)

\* ---------------------------------------------------------------------------
\* C35: if from some moment on the reconciler is called no more (and no
\* write is held back by a bound of the model), then from some moment on the
\* tasks table holds no PENDING row and no RUNNING row.
Submission == \E p \in FsPaths, ord \in ReadDirOrders : Reconcile(p, ord)

QueueDrained == RowsOf("PENDING") = {} /\ RowsOf("RUNNING") = {}

C35_QueueDrains ==
    (<>[][~Submission]_vars /\ [](\A w \in Workers : ~AtBound(w)))
        => <>[]QueueDrained

\* ---------------------------------------------------------------------------
\* C36: the thread that takes a Create, Modify or Remove event calls the
\* reconciler on each of its paths, it makes no call for an Access event, and
\* the thread keeps up with the watcher whatever its calls returned: again
\* and again it has handled every event sent so far.
Handling == \E ord \in ReadDirOrders, failing \in 0..2 : MonitorHandle(ord, failing)

C36_EveryEventHandled ==
    /\ [][Handling =>
            LET e == Head(mon.rx)
            IN  /\ Reconciled(e.kind) => Len(mon'.calls) >= 1
                /\ e.kind = "Access" => mon'.calls = <<>>]_vars
    /\ []<>(mon.done = mon.sent)

\* ---------------------------------------------------------------------------
\* C37: the deletion that ends a worker's task never removes a request that
\* is still to be served: when a worker deletes the row of its task, the row
\* of that key is not PENDING (a submission made while the worker was at the
\* task is PENDING until a worker claims it, and is processed only if one does).
Unserved(w) ==
    {t \in db.tasks : /\ t.id = cur[w].id
                      /\ t.type = cur[w].type /\ t.path = cur[w].path
                      /\ t.status = "PENDING"}

C37_SubmissionNotLost ==
    [][\A w \in Workers : Complete(w) => Unserved(w) = {}]_vars

\* ---------------------------------------------------------------------------
\* C38: in every value get_tasks_status returns, running_tasks has as many
\* paths as running says and failed_tasks as many as failed says.
C38_SnapshotConsistent ==
    \A c \in Callers :
        cmd[c].op = "get_tasks_status" /\ cmd[c].pc = "idle" =>
            /\ Len(cmd[c].running_tasks) = cmd[c].running
            /\ Len(cmd[c].failed_tasks) = cmd[c].failed

\* ---------------------------------------------------------------------------
\* C39: when no command is in progress, IndexDirPaths holds the path of each
\* caller whose last command was an add_index_path that returned Ok, and not
\* the path of a caller whose last command was a del_index_path that
\* returned Ok (the callers work on different paths).
Listed(path) == \E i \in 1..Len(config) : config[i] = path

NoCommand == \A c \in Callers : cmd[c].pc = "idle"

C39_RootUpdatesKept ==
    NoCommand =>
        \A c \in Callers :
            /\ (cmd[c].op = "add_index_path" /\ cmd[c].ok) => Listed(cmd[c].path)
            /\ (cmd[c].op = "del_index_path" /\ cmd[c].ok) => ~Listed(cmd[c].path)

\* ---------------------------------------------------------------------------
\* C40: when no command is in progress, whatever the commands returned, a
\* path is watched exactly if it is in IndexDirPaths.
C40_WatchedIsConfigured ==
    NoCommand => \A p \in {R, S} : p \in watched <=> Listed(p)

====
